---- MODULE Spec2Model ----
(***************************************************************************)
(* Teleoperation calibration scripts: process supervisor (start_teleop /   *)
(* stop_teleop), the SIGINT handler, the session control flow of the five  *)
(* scripts that launch the teleoperation executable, and the streaming     *)
(* detectors.                                                              *)
(*                                                                         *)
(* The Python main thread is modelled as a call stack of frames.  A SIGINT *)
(* pushes a handler frame on top of whatever frame is running (CPython     *)
(* runs the handler between two bytecodes of the main thread); an          *)
(* exception unwinds the stack to the nearest frame whose program point    *)
(* lies inside a try block that catches it.                                *)
(***************************************************************************)
EXTENDS Integers, Sequences, FiniteSets, TLC

\* ---------------------------------------------------------------- bounds
MaxDirs == 2          \* directions measured by drag_measure (source: 6)
MaxInterrupts == 2    \* SIGINTs the operator sends in one session

MaxTime == 6          \* clock ticks a detector run is followed for
MaxStep == 2          \* longest loop period, in clock ticks
MaxRecords == 5       \* samples a damping run records before it overshoots
MaxSamples == 4       \* samples of a freely fed transparency trial
FeedLen == 36         \* samples of the constant 10 Hz feed (3.5 s)
stable_count == 3     \* length of the stability window (source: 20)
nTrials == 2          \* trials per axis of the minimum-drag script (args.num, default 5)
MaxSegments == 5      \* segments a stiffness session collects

\* ------------------------------------------------------------- constants
NoPid == 0                    \* teleop_pid = None
NoPattern == ""               \* teleop_pattern = None (or empty)
Pattern == "test_teleop"      \* os.path.basename(executable_path)

Scripts == {"drag_measure", "min_drag_ft_measure", "tracking_stiffness_measure",
            "transparency_measure", "float_offset_measure"}
\* scripts whose body waits for the pedal inside try/except Exception
PedalScripts == {"min_drag_ft_measure", "float_offset_measure"}
\* program points of drag_measure.main inside the try block / the except block
TryRegion == {"m_sync", "m_start", "m_settle", "m_measure", "m_stop", "m_csv", "m_summary"}
ExceptRegion == {"m_except", "m_sysexit"}

VARIABLES
    script,            \* which script this session runs
    stack,             \* call stack of the main thread
    teleop_pid,        \* global teleop_pid (NoPid = None)
    teleop_pattern,    \* global teleop_pattern (NoPattern = None)
    procs,             \* live external processes: <<generation, kind>>
    spawned,           \* number of Popen calls made so far
    dirIdx,            \* drag_measure: index in direction_order
    exited,            \* "no", "normal", "exit" (SystemExit), "traceback"
    interrupts,        \* SIGINTs delivered so far
    csvClosed,         \* drag_measure: fcsv.close() has run
    lastStop,          \* history: the most recently finished stop_teleop call
    stoppedSinceStart, \* history: a stop_teleop call returned since the last start_teleop
    hist,              \* history flags used by the properties
    \* --- max-contact-wrench dwell detector (measure_max_contact_error)
    set_value,         \* operator-declared setpoint
    mcw_now,           \* time.time(), in clock ticks
    valid_start,       \* NoTime = None
    slave_values,      \* buffered F_slave samples
    mcw_closed,        \* the loop has reached its break
    mcw_exceeded,      \* history: some sample had |F_master| > set_value
    mcw_hist,          \* history: the current run of samples not below the setpoint
    avg_slave,         \* mean of slave_values, once returned
    error_percent,     \* error returned with it
    mcw_returned,      \* measure_max_contact_error has returned
    \* --- minimum-drag detector (measure_drag_for_axis, one trial)
    is_rotation,       \* the axis is Rx/Ry/Rz
    md_pc,             \* "pedal", "sampling", "done", "returned"
    measured_value,    \* NoValue = None
    md_exceeded,       \* history: some sample had |velocity[idx]| > threshold
    trials,            \* measure_drag_for_axis: values recorded so far
    md_hist,           \* history: the first crossing of every trial
    \* --- which measurement of SpecSegments runs ("none" in the other specs)
    detector,
    fault,             \* exception raised by a metric computation ("none")
    \* --- damping run (measure_damping_in_one_direction and its caller)
    dm_pc,             \* "idle", "sampling", "reduce", "append", "stop", "csv", "done",
                       \* "aborted"
    dm_hist,           \* history: the samples the loop has read
    reachedStart,
    data_records,      \* recorded samples [dist, v, f]
    B_dir,             \* overall coefficient, a rational <<num, den>>
    chunk_info,        \* the chunk table returned
    results,           \* main: results list
    csv_block,         \* main: the CSV block written for the direction
    \* --- transparency trial (measure_transparency_once and its caller)
    tr_pc,             \* "idle", "sampling", "reduce", "record", "csv", "done"
    tr_feed,           \* "free": any samples; "const": 10.0 N / -10.5 N at 10 Hz
    current_time,      \* time.time() of the latest sample, in ticks of 0.1 s
    valid_start_time,  \* NoTime = None
    valid_data,        \* buffered samples [t, fm, fs]
    T_avg,             \* <<"None">>, <<"inf">> or a rational
    test_results,      \* main: test_results
    tr_csv,            \* main: the result rows written to the CSV file
    tr_hist,           \* history: samples taken, and the current in-band run
    \* --- stiffness trials (measure_stiffness_for_axis and its caller)
    st_pc,             \* "idle", "loop", "segment", "append", "average", "done", "crashed"
    trials_per_axis,   \* args.num
    stable_window,
    segment_logs,
    st_K,              \* value returned by measure_stiffness_for_axis
    trial_values,
    avg_K,
    st_segs,           \* segments collected so far in the session
    st_delta,          \* avg_delta returned by measure_stiffness_for_axis
    delta_logs,        \* history: avg_delta of every segment in segment_logs
    \* --- hover trial (measure_hover and its caller)
    robot_modes,       \* save_go_pose: robot.mode() of every robot
    current_modes,     \* save_go_pose: the modes read before the move
    menu_hist,         \* history: modes and MoveJ commands before the latest command
    hv_pc,             \* "idle", "loop", "auto_press", "auto_move", "auto_release",
                       \* "press", "measure", "append", "release", "done", "crashed"
    hv_num,            \* args.num
    hv_i,              \* the loop index i
    is_auto,           \* the executable supports the automatic move
    hv_pedal,          \* history: the gate that read the pedal last, and what it read
    hv_start,          \* tcp_pose[0:3] before the sleep, micrometres
    hv_end,            \* tcp_pose[0:3] after the sleep, micrometres
    hv_dist,           \* round(dist, 2), in hundredths of a millimetre
    hv_success,
    hv_results,
    \* --- operator selections (save_go_pose menu, executable selection)
    menu_script,       \* the script asking: "", "save_go_pose", or a measurement script
    menu_pc,           \* "idle", "key", "parse", "index", "move", "select", "chosen", "exited"
    csv_rows,          \* save_go_pose: data rows of the pose file
    poses_deg,         \* save_go_pose: poses decoded by the 'g' command
    menu_choice,       \* index accepted by the selection (NoChoice = none yet)
    menu_exit,         \* "no", "quit", "exit1" (sys.exit(1)), "traceback"
    menu_log,          \* the messages printed about operator input
    \* --- the launch command (start_teleop)
    launch_pc,         \* "idle", "build", "popen", "print", "done"
    SUDO_PASSWORD,     \* args.password
    executable_path,
    cmd,               \* the command string, as a sequence of words
    argvs,             \* argument vectors of the processes spawned
    sudo_stdin,        \* what the pipe feeds to sudo -S
    launch_log         \* the lines printed

sessVars == <<script, stack, teleop_pid, teleop_pattern, procs, spawned, dirIdx,
              exited, interrupts, csvClosed, lastStop, stoppedSinceStart, hist>>
mcwVars == <<set_value, mcw_now, valid_start, slave_values, mcw_closed, mcw_exceeded,
             mcw_hist, avg_slave, error_percent, mcw_returned>>
mdVars == <<is_rotation, md_pc, measured_value, md_exceeded, trials, md_hist>>
dampVars == <<dm_pc, reachedStart, data_records, B_dir, chunk_info, results, csv_block,
             dm_hist>>
trVars == <<tr_pc, tr_feed, current_time, valid_start_time, valid_data, T_avg,
           test_results, tr_csv, tr_hist>>
stVars == <<st_pc, trials_per_axis, stable_window, segment_logs, st_K, trial_values, avg_K,
           st_segs, st_delta, delta_logs>>
hvVars == <<hv_pc, hv_num, hv_i, is_auto, hv_pedal, hv_start, hv_end, hv_dist, hv_success,
            hv_results>>
robotVars == <<robot_modes, current_modes, menu_hist>>
menuVars == <<menu_script, menu_pc, csv_rows, poses_deg, menu_choice, menu_exit, menu_log,
              robotVars>>
launchVars == <<launch_pc, SUDO_PASSWORD, executable_path, cmd, argvs, sudo_stdin, launch_log>>
miscVars == <<hvVars, menuVars, launchVars>>
segVars == <<detector, fault, dampVars, trVars, stVars, miscVars>>
detVars == <<mcwVars, mdVars, segVars>>
vars == <<sessVars, detVars>>

\* ------------------------------------------------- detector quantities
\* Time is counted in clock ticks of one second and the loop period is
\* scaled to at least one tick; forces are in newtons, velocities in units
\* of 0.01 m/s (0.01 rad/s).
valid_duration == 3           \* 3.0 s
linear_threshold == 1         \* 0.01 m/s
angular_threshold == 10       \* 0.1 rad/s
NoTime == -1                  \* valid_start = None
NoValue == -1                 \* measured_value = None
SetValues == {-1, 0, 1, 2}    \* setpoints the operator may type
MasterVals == -2..2           \* F_master samples
SlaveVals == {1, 2}           \* F_slave samples
VelVals == {-10, -1, 0, 1, 2, 9, 10, 11}   \* tcp_vel[idx] samples
WrenchVals == {-3, 0, 3}      \* ext_wrench_in_world[idx] samples
Abs(x) == IF x < 0 THEN -x ELSE x
\* history of the minimum-drag trials: |wrench[idx]| of the first snapshot of
\* each trial whose |tcp_vel[idx]| is at or above the threshold of the axis,
\* and what the latest read of the pedal gave
NoCrossing == [firsts |-> <<>>, crossed |-> FALSE, quiet |-> FALSE, read |-> "none"]
CrossingAfter(h, rot, v, w) ==
    IF h.crossed THEN h
    ELSE IF Abs(v) >= (IF rot THEN angular_threshold ELSE linear_threshold)
         THEN [h EXCEPT !.firsts = Append(h.firsts, Abs(w)), !.crossed = TRUE]
         ELSE [h EXCEPT !.quiet = TRUE]

\* history of the dwell detector: the F_slave samples taken since the last
\* sample below the setpoint, the clock value at the first of them, whether
\* the latest sample was below, and whether a run has been broken
NoRun == [run |-> <<>>, start |-> NoTime, below |-> FALSE, broke |-> FALSE]
RunAfter(h, now, fm, fs) ==
    IF Abs(fm) < set_value
    THEN [run |-> <<>>, start |-> NoTime, below |-> TRUE,
          broke |-> h.broke \/ h.run # <<>>]
    ELSE [run |-> Append(h.run, fs),
          start |-> IF h.run = <<>> THEN now ELSE h.start,
          below |-> FALSE, broke |-> h.broke]

\* ---------------------------------------------------------------- frames
Frame(fn, pc) ==
    [fn |-> fn, pc |-> pc, pgid |-> NoPid, second |-> FALSE, had |-> FALSE,
     ints |-> 0, aft |-> FALSE, sent |-> {}, pending |-> "none"]

\* stop_teleop() is called: "if teleop_pid is not None and teleop_pid > 0" picks
\* the group-based step, otherwise "if teleop_pattern:" picks the sweep.
StopEntry ==
    IF teleop_pid # NoPid /\ teleop_pid > 0 THEN "t_getpgid"
    ELSE IF teleop_pattern # NoPattern THEN "t_pkill" ELSE "t_clearpat"

StopFrame ==
    [Frame("stop", StopEntry) EXCEPT
        !.second = stoppedSinceStart,
        !.had = (teleop_pattern # NoPattern),
        !.ints = interrupts,
        !.aft = hist.faulted]

NoStop == [outcome |-> "none", second |-> FALSE, had |-> FALSE, sent |-> {}]

Top == stack[Len(stack)]
Pop(stk) == SubSeq(stk, 1, Len(stk) - 1)
SetTop(stk, f) == [stk EXCEPT ![Len(stk)] = f]
Running == exited = "no" /\ stack # <<>>
At(fn, pc) == Running /\ Top.fn = fn /\ Top.pc = pc
Goto(pc) == stack' = SetTop(stack, [Top EXCEPT !.pc = pc])

\* ------------------------------------------------- exception propagation
\* Where frame f, stopped at f.pc, catches exception e ("" = it does not).
CatchPc(f, e) ==
    IF f.fn = "stop" /\ f.pc = "t_pkill" /\ e = "Exception" THEN "t_clearpat"
    ELSE IF f.fn = "main" /\ script \in PedalScripts /\ f.pc = "m_pedal" /\ e = "Exception"
        THEN "m_pedal"
    ELSE IF f.fn = "main" /\ script = "drag_measure" /\ f.pc \in TryRegion /\ e = "Exception"
        THEN "m_except"
    ELSE IF f.fn = "main" /\ script = "drag_measure" /\ f.pc \in (TryRegion \cup ExceptRegion)
        THEN "m_finally"
    ELSE ""

RECURSIVE Unwind(_, _)
Unwind(stk, e) ==
    IF stk = <<>> THEN <<>>
    ELSE LET f == stk[Len(stk)]
             to == CatchPc(f, e)
         IN  IF to # ""
             THEN SetTop(stk, [f EXCEPT !.pc = to,
                                        !.pending = IF to = "m_finally" THEN e ELSE "none"])
             ELSE Unwind(Pop(stk), e)

ExitKind(e) == IF e = "SystemExit" THEN "exit" ELSE "traceback"

\* Exception e is raised in the top frame.
Raise(e) ==
    /\ stack' = Unwind(stack, e)
    /\ exited' = IF Unwind(stack, e) = <<>> THEN ExitKind(e) ELSE exited

\* ------------------------------------------------------- the environment
GroupLive(g) == {p \in procs : p[1] = g /\ p[2] \in {"leader", "member"}}

\* what is left of the trees of earlier start_teleop calls: their processes
\* are in none of the later groups, and their command lines hold the pattern
Strays(ps) == IF ps = {} THEN {} ELSE {<<0, "stray">>}

\* the teleoperation executable or one of its processes ends on its own
EnvDie ==
    /\ Running
    /\ \E p \in procs : procs' = procs \ {p}
    /\ UNCHANGED <<script, stack, teleop_pid, teleop_pattern, spawned, dirIdx, exited,
                   interrupts, csvClosed, lastStop, stoppedSinceStart, hist>>
    /\ UNCHANGED detVars

\* a process of the tree forks a descendant that leaves the process group
EnvEscape ==
    /\ Running
    /\ \E g \in 1..MaxDirs :
        /\ <<g, "member">> \in procs
        /\ <<g, "escaped">> \notin procs
        /\ procs' = procs \cup {<<g, "escaped">>}
    /\ UNCHANGED <<script, stack, teleop_pid, teleop_pattern, spawned, dirIdx, exited,
                   interrupts, csvClosed, lastStop, stoppedSinceStart, hist>>
    /\ UNCHANGED detVars

\* ---------------------------------------------------------- start_teleop
StartPattern ==
    /\ At("start", "s_pattern")
    /\ teleop_pattern' = Pattern
    /\ stoppedSinceStart' = FALSE
    /\ lastStop' = NoStop
    /\ Goto("s_popen")
    /\ UNCHANGED <<script, teleop_pid, procs, spawned, dirIdx, exited, interrupts,
                   csvClosed, hist>>
    /\ UNCHANGED detVars

StartPopen ==
    /\ At("start", "s_popen")
    /\ spawned' = spawned + 1
    /\ procs' = Strays(procs) \cup {<<spawned + 1, "leader">>, <<spawned + 1, "member">>}
    /\ stack' = SetTop(stack, [Top EXCEPT !.pc = "s_pid", !.pgid = spawned + 1])
    /\ UNCHANGED <<script, teleop_pid, teleop_pattern, dirIdx, exited, interrupts,
                   csvClosed, lastStop, stoppedSinceStart, hist>>
    /\ UNCHANGED detVars

StartPid ==
    /\ At("start", "s_pid")
    /\ teleop_pid' = Top.pgid
    /\ Goto("s_sleep")
    /\ UNCHANGED <<script, teleop_pattern, procs, spawned, dirIdx, exited, interrupts,
                   csvClosed, lastStop, stoppedSinceStart, hist>>
    /\ UNCHANGED detVars

StartSleep ==
    /\ At("start", "s_sleep")
    /\ stack' = Pop(stack)
    /\ UNCHANGED <<script, teleop_pid, teleop_pattern, procs, spawned, dirIdx, exited,
                   interrupts, csvClosed, lastStop, stoppedSinceStart, hist>>
    /\ UNCHANGED detVars

\* ----------------------------------------------------------- stop_teleop
Finished(f, outcome) ==
    [outcome |-> outcome, second |-> f.second, had |-> f.had, sent |-> f.sent]

Log(what) == [Top EXCEPT !.sent = @ \cup what]

\* history of an interrupt that arrived in start_teleop after the spawn: it
\* is "signalled" once a stop_teleop call that ends has sent a signal
Reached(was, sent) ==
    IF was = "waiting" /\ sent \cap {"SIGTERM", "SIGKILL", "SWEEP"} # {}
    THEN "signalled" ELSE was

\* os.getpgid / os.killpg raise PermissionError: no except clause of
\* stop_teleop names it, so it leaves stop_teleop.
StopRaise(what) ==
    /\ lastStop' = Finished(Log(what), "raised")
    /\ hist' = [hist EXCEPT !.permErr = TRUE,
                            !.startInt = Reached(@, Top.sent),
                            !.nestedErr = @ \/ (Len(stack) > 1 /\ stack[Len(stack) - 1].fn = "handler")]
    /\ Raise("Exception")
    /\ UNCHANGED <<script, teleop_pid, teleop_pattern, procs, spawned, dirIdx,
                   interrupts, csvClosed, stoppedSinceStart>>

\* pgid = os.getpgid(teleop_pid); ProcessLookupError gives pgid = None.
\* A leader that has ended may still be resolvable (not yet reaped) or not.
StopGetpgid ==
    /\ At("stop", "t_getpgid")
    /\ \/ stack' = SetTop(stack, [Top EXCEPT !.pc = "t_term", !.pgid = teleop_pid])
       \/ /\ <<teleop_pid, "leader">> \notin procs
          /\ stack' = SetTop(stack, [Top EXCEPT !.pc = "t_clear", !.pgid = NoPid])
    /\ UNCHANGED <<script, teleop_pid, teleop_pattern, procs, spawned, dirIdx, exited,
                   interrupts, csvClosed, lastStop, stoppedSinceStart, hist>>
    /\ UNCHANGED detVars

\* os.killpg(pgid, SIGTERM); time.sleep(1.0): delivered (each member ends or
\* ignores it), ProcessLookupError (caught), or PermissionError (not caught).
StopTerm ==
    /\ At("stop", "t_term")
    /\ \/ /\ \E S \in SUBSET GroupLive(Top.pgid) : procs' = procs \ S
          /\ stack' = SetTop(stack, [Log({"SIGTERM"}) EXCEPT !.pc = "t_probe"])
          /\ UNCHANGED <<exited, lastStop, hist>>
       \/ /\ GroupLive(Top.pgid) = {}
          /\ Goto("t_clear")
          /\ UNCHANGED <<procs, exited, lastStop, hist>>
    /\ UNCHANGED <<script, teleop_pid, teleop_pattern, spawned, dirIdx, interrupts,
                   csvClosed, stoppedSinceStart>>
    /\ UNCHANGED detVars

StopTermDenied ==
    /\ At("stop", "t_term")
    /\ GroupLive(Top.pgid) # {}
    /\ StopRaise({})
    /\ UNCHANGED detVars

\* variant of StopProbe that leaves the group step once the probe succeeds,
\* without the SIGKILL call
StopProbeNoKill ==
    /\ At("stop", "t_probe")
    /\ stack' = SetTop(stack, [Log(IF GroupLive(Top.pgid) # {} THEN {"ALIVE"} ELSE {})
                                 EXCEPT !.pc = "t_clear"])
    /\ UNCHANGED <<script, teleop_pid, teleop_pattern, procs, spawned, dirIdx, exited,
                   interrupts, csvClosed, lastStop, stoppedSinceStart, hist>>
    /\ UNCHANGED detVars

\* os.killpg(pgid, 0)
StopProbe ==
    /\ At("stop", "t_probe")
    /\ \/ stack' = SetTop(stack, [Log(IF GroupLive(Top.pgid) # {} THEN {"ALIVE"} ELSE {})
                                    EXCEPT !.pc = "t_kill"])
       \/ /\ GroupLive(Top.pgid) = {}
          /\ Goto("t_clear")
    /\ UNCHANGED <<script, teleop_pid, teleop_pattern, procs, spawned, dirIdx, exited,
                   interrupts, csvClosed, lastStop, stoppedSinceStart, hist>>
    /\ UNCHANGED detVars

StopProbeDenied ==
    /\ At("stop", "t_probe")
    /\ GroupLive(Top.pgid) # {}
    /\ StopRaise({"ALIVE"})
    /\ UNCHANGED detVars

\* os.killpg(pgid, SIGKILL): the call is made ("SIGKILL" is logged) whether it
\* reaches the members, finds the group gone (caught) or is denied
StopKill ==
    /\ At("stop", "t_kill")
    /\ \/ /\ procs' = procs \ GroupLive(Top.pgid)
          /\ stack' = SetTop(stack, [Log({"SIGKILL"}) EXCEPT !.pc = "t_clear"])
       \/ /\ GroupLive(Top.pgid) = {}
          /\ stack' = SetTop(stack, [Log({"SIGKILL"}) EXCEPT !.pc = "t_clear"])
          /\ UNCHANGED procs
    /\ UNCHANGED <<script, teleop_pid, teleop_pattern, spawned, dirIdx, exited,
                   interrupts, csvClosed, lastStop, stoppedSinceStart, hist>>
    /\ UNCHANGED detVars

StopKillDenied ==
    /\ At("stop", "t_kill")
    /\ GroupLive(Top.pgid) # {}
    /\ StopRaise({"SIGKILL"})
    /\ UNCHANGED detVars

\* variant of StopClearPid that keeps the handle
StopClearPidKeep ==
    /\ At("stop", "t_clear")
    /\ Goto(IF teleop_pattern # NoPattern THEN "t_pkill" ELSE "t_clearpat")
    /\ UNCHANGED <<script, teleop_pid, teleop_pattern, procs, spawned, dirIdx, exited,
                   interrupts, csvClosed, lastStop, stoppedSinceStart, hist>>
    /\ UNCHANGED detVars

\* teleop_pid = None; if teleop_pattern:
StopClearPid ==
    /\ At("stop", "t_clear")
    /\ teleop_pid' = NoPid
    /\ Goto(IF teleop_pattern # NoPattern THEN "t_pkill" ELSE "t_clearpat")
    /\ UNCHANGED <<script, teleop_pattern, procs, spawned, dirIdx, exited,
                   interrupts, csvClosed, lastStop, stoppedSinceStart, hist>>
    /\ UNCHANGED detVars

\* subprocess.run(["pkill", "-9", "-f", teleop_pattern], check=False): every
\* process whose command line holds the pattern is killed, or the call fails
\* (except Exception: "pkill error") and nothing is killed.
StopPkill ==
    /\ At("stop", "t_pkill")
    /\ \/ /\ procs' = {}
          /\ stack' = SetTop(stack, [Log({"SWEEP"}) EXCEPT !.pc = "t_clearpat"])
       \/ /\ procs' = procs
          /\ stack' = SetTop(stack, [Log({"SWEEP_ERR"}) EXCEPT !.pc = "t_clearpat"])
    /\ UNCHANGED <<script, teleop_pid, teleop_pattern, spawned, dirIdx, exited,
                   interrupts, csvClosed, lastStop, stoppedSinceStart, hist>>
    /\ UNCHANGED detVars

\* variant of StopClearPattern that returns with the pattern still recorded
StopClearPatternKeep ==
    /\ At("stop", "t_clearpat")
    /\ stack' = Pop(stack)
    /\ lastStop' = Finished(Top, "returned")
    /\ stoppedSinceStart' = TRUE
    /\ hist' = [hist EXCEPT !.stopAfterInt = @ \/ (Top.ints = interrupts),
                            !.stopAfterFault = @ \/ Top.aft,
                            !.startInt = Reached(@, Top.sent)]
    /\ UNCHANGED <<script, teleop_pid, teleop_pattern, procs, spawned, dirIdx, exited,
                   interrupts, csvClosed>>
    /\ UNCHANGED detVars

\* teleop_pattern = None; return
StopClearPattern ==
    /\ At("stop", "t_clearpat")
    /\ teleop_pattern' = NoPattern
    /\ stack' = Pop(stack)
    /\ lastStop' = Finished(Top, "returned")
    /\ stoppedSinceStart' = TRUE
    /\ hist' = [hist EXCEPT !.stopAfterInt = @ \/ (Top.ints = interrupts),
                            !.stopAfterFault = @ \/ Top.aft,
                            !.startInt = Reached(@, Top.sent)]
    /\ UNCHANGED <<script, teleop_pid, procs, spawned, dirIdx, exited, interrupts,
                   csvClosed>>
    /\ UNCHANGED detVars

\* ------------------------------------------------- SIGINT handler, exit
\* signal.signal(signal.SIGINT, signal_handler): the handler runs on top of
\* whatever the main thread was executing.
Interrupt ==
    /\ Running
    /\ interrupts < MaxInterrupts
    /\ interrupts' = interrupts + 1
    /\ stack' = Append(stack, Frame("handler", "h_stop"))
    /\ hist' = [hist EXCEPT !.sigint = @ \/ hist.started,
                            !.stopAfterInt = FALSE,
                            !.nestedInt = @ \/ (\E i \in 1..Len(stack) : stack[i].fn = "stop"),
                            !.startInt = IF @ = "none" /\ Top.fn = "start"
                                            /\ Top.pc \in {"s_pid", "s_sleep"}
                                         THEN "waiting" ELSE @]
    /\ UNCHANGED <<script, teleop_pid, teleop_pattern, procs, spawned, dirIdx, exited,
                   csvClosed, lastStop, stoppedSinceStart>>
    /\ UNCHANGED detVars

\* safe_exit / signal_handler: stop_teleop()
HandlerStop ==
    /\ At("handler", "h_stop")
    /\ stack' = Append(SetTop(stack, [Top EXCEPT !.pc = "h_exit"]), StopFrame)
    /\ UNCHANGED <<script, teleop_pid, teleop_pattern, procs, spawned, dirIdx, exited,
                   interrupts, csvClosed, lastStop, stoppedSinceStart, hist>>
    /\ UNCHANGED detVars

\* sys.exit(0)
HandlerExit ==
    /\ At("handler", "h_exit")
    /\ Raise("SystemExit")
    /\ UNCHANGED <<script, teleop_pid, teleop_pattern, procs, spawned, dirIdx,
                   interrupts, csvClosed, lastStop, stoppedSinceStart, hist>>
    /\ UNCHANGED detVars

\* --------------------------------------------------------------- main()
\* variant of AfterMeasure that writes the CSV output before stopping
AfterMeasureCsvFirst == "m_csv"

\* the step that follows the measurement body
AfterMeasure ==
    IF script \in {"drag_measure", "float_offset_measure"} THEN "m_stop" ELSE "m_csv"

\* the step that follows the stop_teleop() call of the normal path
AfterStop ==
    IF script \in {"drag_measure", "float_offset_measure"} THEN "m_csv" ELSE "m_end"

\* the step that follows the CSV output
AfterCsv ==
    IF script = "drag_measure"
    THEN (IF dirIdx < MaxDirs THEN "m_sync" ELSE "m_summary")
    ELSE IF script = "float_offset_measure" THEN "m_end" ELSE "m_stop"

\* sync_pose / sync_home, input(...), robot.Stop()
MainSync ==
    /\ At("main", "m_sync")
    /\ Goto("m_start")
    /\ hist' = [hist EXCEPT !.steps = <<"MoveJ", "Stop">>]
    /\ UNCHANGED <<script, teleop_pid, teleop_pattern, procs, spawned, dirIdx, exited,
                   interrupts, csvClosed, lastStop, stoppedSinceStart>>
    /\ UNCHANGED detVars

\* start_teleop(exe_path)
MainStart ==
    /\ At("main", "m_start")
    /\ stack' = Append(SetTop(stack, [Top EXCEPT !.pc = "m_settle"]),
                       Frame("start", "s_pattern"))
    /\ hist' = [hist EXCEPT !.started = TRUE, !.steps = Append(@, "start_teleop")]
    /\ UNCHANGED <<script, teleop_pid, teleop_pattern, procs, spawned, dirIdx, exited,
                   interrupts, csvClosed, lastStop, stoppedSinceStart>>
    /\ UNCHANGED detVars

\* time.sleep(7.0)
MainSettle ==
    /\ At("main", "m_settle")
    /\ Goto(IF script \in PedalScripts THEN "m_pedal" ELSE "m_measure")
    /\ UNCHANGED <<script, teleop_pid, teleop_pattern, procs, spawned, dirIdx, exited,
                   interrupts, csvClosed, lastStop, stoppedSinceStart, hist>>
    /\ UNCHANGED detVars

\* try: pedal = leader_robot.digital_inputs()[0] ... if pedal == 1: break
MainPedal ==
    /\ At("main", "m_pedal")
    /\ Goto("m_measure")
    /\ UNCHANGED <<script, teleop_pid, teleop_pattern, procs, spawned, dirIdx, exited,
                   interrupts, csvClosed, lastStop, stoppedSinceStart, hist>>
    /\ UNCHANGED detVars

\* the measurement body runs to its end
MainMeasure ==
    /\ At("main", "m_measure")
    /\ Goto(AfterMeasure)
    /\ hist' = [hist EXCEPT !.measured = @ + 1, !.steps = Append(@, "sampling")]
    /\ UNCHANGED <<script, teleop_pid, teleop_pattern, procs, spawned, dirIdx, exited,
                   interrupts, csvClosed, lastStop, stoppedSinceStart>>
    /\ UNCHANGED detVars

\* the measurement body raises (robot.states(), a conversion, a computation)
MainFault ==
    /\ At("main", "m_measure")
    /\ hist' = [hist EXCEPT !.faulted = TRUE]
    /\ Raise("Exception")
    /\ UNCHANGED <<script, teleop_pid, teleop_pattern, procs, spawned, dirIdx,
                   interrupts, csvClosed, lastStop, stoppedSinceStart>>
    /\ UNCHANGED detVars

\* stop_teleop() of the normal path
MainStop ==
    /\ At("main", "m_stop")
    /\ stack' = Append(SetTop(stack, [Top EXCEPT !.pc = AfterStop]), StopFrame)
    /\ hist' = [hist EXCEPT !.steps = Append(@, "stop_teleop")]
    /\ UNCHANGED <<script, teleop_pid, teleop_pattern, procs, spawned, dirIdx, exited,
                   interrupts, csvClosed, lastStop, stoppedSinceStart>>
    /\ UNCHANGED detVars

\* CSV output (drag_measure: the block of the direction, then the next one)
MainCsv ==
    /\ At("main", "m_csv")
    /\ Goto(AfterCsv)
    /\ dirIdx' = IF script = "drag_measure" /\ dirIdx < MaxDirs THEN dirIdx + 1 ELSE dirIdx
    /\ hist' = [hist EXCEPT !.blocks = @ + 1, !.steps = Append(@, "csv")]
    /\ UNCHANGED <<script, teleop_pid, teleop_pattern, procs, spawned, exited,
                   interrupts, csvClosed, lastStop, stoppedSinceStart>>
    /\ UNCHANGED detVars

\* drag_measure: the summary after the last direction; the try block ends
MainSummary ==
    /\ At("main", "m_summary")
    /\ Goto("m_finally")
    /\ UNCHANGED <<script, teleop_pid, teleop_pattern, procs, spawned, dirIdx, exited,
                   interrupts, csvClosed, lastStop, stoppedSinceStart, hist>>
    /\ UNCHANGED detVars

\* drag_measure: except Exception as e: safe_exit() -> stop_teleop()
MainExcept ==
    /\ At("main", "m_except")
    /\ stack' = Append(SetTop(stack, [Top EXCEPT !.pc = "m_sysexit"]), StopFrame)
    /\ UNCHANGED <<script, teleop_pid, teleop_pattern, procs, spawned, dirIdx, exited,
                   interrupts, csvClosed, lastStop, stoppedSinceStart, hist>>
    /\ UNCHANGED detVars

\* drag_measure: safe_exit() -> sys.exit(0)
MainSysExit ==
    /\ At("main", "m_sysexit")
    /\ Raise("SystemExit")
    /\ UNCHANGED <<script, teleop_pid, teleop_pattern, procs, spawned, dirIdx,
                   interrupts, csvClosed, lastStop, stoppedSinceStart, hist>>
    /\ UNCHANGED detVars

\* drag_measure: finally: stop_teleop()
MainFinally ==
    /\ At("main", "m_finally")
    /\ stack' = Append(SetTop(stack, [Top EXCEPT !.pc = "m_close"]), StopFrame)
    /\ UNCHANGED <<script, teleop_pid, teleop_pattern, procs, spawned, dirIdx, exited,
                   interrupts, csvClosed, lastStop, stoppedSinceStart, hist>>
    /\ UNCHANGED detVars

\* drag_measure: fcsv.close(); print; the pending exception, if any, goes on
MainClose ==
    /\ At("main", "m_close")
    /\ csvClosed' = TRUE
    /\ IF Top.pending = "none"
       THEN Goto("m_end") /\ UNCHANGED exited
       ELSE stack' = <<>> /\ exited' = ExitKind(Top.pending)
    /\ UNCHANGED <<script, teleop_pid, teleop_pattern, procs, spawned, dirIdx,
                   interrupts, lastStop, stoppedSinceStart, hist>>
    /\ UNCHANGED detVars

\* main() returns
MainEnd ==
    /\ At("main", "m_end")
    /\ stack' = <<>>
    /\ exited' = "normal"
    /\ UNCHANGED <<script, teleop_pid, teleop_pattern, procs, spawned, dirIdx,
                   interrupts, csvClosed, lastStop, stoppedSinceStart, hist>>
    /\ UNCHANGED detVars

\* --------------------------------------------------- rational numbers
\* A quotient the scripts compute in floating point is kept exact, as
\* <<numerator, denominator>> with a positive denominator.
Zero == <<0, 1>>
RatEq(a, b) == a[1] * b[2] = b[1] * a[2]
RatAdd(a, b) == <<a[1] * b[2] + b[1] * a[2], a[2] * b[2]>>
RatDivInt(a, k) == <<a[1], a[2] * k>>
RatPos(a) == a[1] > 0

\* ------------------------------------------ damping run (drag_measure)
\* Distances are in cm (the double nearest to dist/100 m), |vdir| in units of
\* 0.5e-6 m/s, |fdir| in newtons; the six configured directions are unit
\* axis vectors, so the projections are the axis components.
startDist == 5                \* 0.05 m
finalDistM == 30              \* 0.30 m
ChunkW == 5                   \* 0.05 m
MinRecords == 5               \* len(data_records) < 5
vFloor == 2                   \* 1e-6 m/s
DampSamples ==
    { [dist |-> 0,  v |-> 0, f |-> 0],
      [dist |-> 3,  v |-> 4, f |-> 8],
      [dist |-> 5,  v |-> 2, f |-> 8],
      [dist |-> 12, v |-> 0, f |-> 8],
      [dist |-> 15, v |-> 4, f |-> 8],
      [dist |-> 30, v |-> 4, f |-> 4],
      [dist |-> 31, v |-> 4, f |-> 8] }

\* history of the sampling loop: whether a sample below startDist was read,
\* how many samples beyond finalDistM were read, the distance of the latest
NoSamples == [low |-> FALSE, overs |-> 0, last |-> 0]
SamplesAfter(h, smp) ==
    [low |-> h.low \/ smp.dist < startDist,
     overs |-> h.overs + (IF smp.dist > finalDistM THEN 1 ELSE 0),
     last |-> smp.dist]

DampIdle ==
    /\ dm_pc = "idle"
    /\ reachedStart = FALSE
    /\ dm_hist = NoSamples
    /\ data_records = <<>>
    /\ B_dir = Zero
    /\ chunk_info = <<>>
    /\ results = <<>>
    /\ csv_block = <<>>

\* ------------------------------- transparency trial (transparency_measure)
\* Forces are in units of 0.5 N, time in ticks of 0.1 s.
bandLow == 18                 \* 9.0 N
bandHigh == 22                \* 11.0 N
tr_valid_duration == 30       \* 3.0 s
sFloor == 0                   \* abs(avg_F_slave) < 1e-6: below every non-zero force unit
None == <<"None">>
Inf == <<"inf">>
TrSlaveVals == {17, 18, 22, 23}
TrMasterVals == {-21}
TrSteps == {1, 15, 30}        \* time between two samples: sleep(0.1) or longer
NoTrHist == [n |-> 0, run |-> <<>>, out |-> FALSE, broke |-> FALSE]

TrIdle ==
    /\ tr_pc = "idle"
    /\ tr_feed = "free"
    /\ current_time = 0
    /\ valid_start_time = NoTime
    /\ valid_data = <<>>
    /\ T_avg = None
    /\ test_results = <<>>
    /\ tr_csv = <<>>
    /\ tr_hist = NoTrHist

\* ------------------------ stiffness trials (tracking_stiffness_measure)
\* A segment is kept as the sums of its samples: delta in units of 0.5e-6
\* (the floor 1e-6 is 2 units), force in the units that make the quotients
\* below whole numbers.
min_stiffness == 10           \* 10.0
max_fluctuation == 20         \* 20.0
dFloor == 2                   \* abs(avg_delta) < 1e-6
KInf == 1000000               \* float('inf')
\* segments of one sample each: (delta, F_slave); the empty one has no sample
Segments ==
    { [N |-> 0, d |-> 0, f |-> 0],
      [N |-> 1, d |-> 1, f |-> 24],
      [N |-> 1, d |-> 2, f |-> 20],
      [N |-> 1, d |-> 2, f |-> 24],
      [N |-> 1, d |-> 4, f |-> 48],
      [N |-> 1, d |-> 2, f |-> 62],
      [N |-> 1, d |-> 2, f |-> 64] }
TrialCounts == {0, 1}         \* args.num

StIdle ==
    /\ st_pc = "idle"
    /\ trials_per_axis = 0
    /\ stable_window = <<>>
    /\ segment_logs = <<>>
    /\ st_K = None
    /\ trial_values = <<>>
    /\ avg_K = None
    /\ st_segs = 0
    /\ st_delta = None
    /\ delta_logs = <<>>

\* ------------------------------ hover trial (float_offset_measure)
\* Positions are whole micrometres; the arithmetic is exact.
HoverLimit == 10000           \* dist < 10.0 (mm)
MaxReported == 2000           \* largest reported distance, hundredths of a mm
HoverStarts == { <<0, 0, 0>>, <<1000, 0, 0>> }
HoverMoves ==
    { <<0, 0, 0>>, <<3000, 4000, 0>>, <<9994, 0, 0>>, <<9996, 0, 0>>, <<10000, 0, 0>>,
      <<10004, 0, 0>>, <<0, 0, 12000>>, <<3000, 4000, 12000>> }
NoPose == <<0, 0, 0>>
PoseCount == 2                \* len(test_pose)
PedalReads == {"0", "1", "error"}   \* leader.digital_inputs()[0], or the read raises
NoRead == <<"none", "none">>

HvIdle ==
    /\ hv_pc = "idle"
    /\ hv_num = 0
    /\ hv_i = 0
    /\ is_auto = FALSE
    /\ hv_pedal = NoRead
    /\ hv_start = NoPose
    /\ hv_end = NoPose
    /\ hv_dist = 0
    /\ hv_success = FALSE
    /\ hv_results = <<>>

\* ---------------------- operator selections (save_go_pose and main())
MaxRows == 2                  \* data rows of the pose file
MaxKeys == 3                  \* menu commands the operator enters
NoChoice == -2                \* no index accepted yet
ListLen == 2                  \* entries of the executable list
\* a data row decodes (a pose) or makes ast.literal_eval / row[k] raise
RowKinds == {"poseA", "poseB", "malformed"}
PoseFiles == UNION { [1..n -> RowKinds] : n \in 0..MaxRows }
\* what the operator types at an index prompt
IndexInputs == {"abc", "-1", "0", "1", "2", "3"}
IsNumber(txt) == txt # "abc"
\* int(txt)
IntOf(txt) ==
    CASE txt = "-1" -> -1 [] txt = "0" -> 0 [] txt = "1" -> 1 [] txt = "2" -> 2
      [] txt = "3" -> 3
\* scripts that check the index (try / range test / bare except) and scripts
\* that use int(input(...)) as a list index directly
CheckedSelect == {"drag_measure", "min_drag_ft_measure", "transparency_measure"}
UncheckedSelect == {"tracking_stiffness_measure", "float_offset_measure"}

NRobots == 2                  \* serial numbers on the command line
PrimitiveMode == "NRT_PRIMITIVE_EXECUTION"
Modes == {"IDLE", "RT_JOINT_POSITION", PrimitiveMode}
NoMenuHist == [modes |-> <<>>, sent |-> 0, last |-> "none", waits |-> <<>>, earlier |-> FALSE]

MenuIdle ==
    /\ robot_modes = <<>>
    /\ current_modes = <<>>
    /\ menu_hist = NoMenuHist
    /\ menu_script = ""
    /\ menu_pc = "idle"
    /\ csv_rows = <<>>
    /\ poses_deg = <<>>
    /\ menu_choice = NoChoice
    /\ menu_exit = "no"
    /\ menu_log = <<>>

\* ------------------------------------------ launch command (start_teleop)
Secrets == {"hunter2", "s3cret"}
Executables == {"./test_teleop", "./test_high_transparency_teleop"}
HighTransparency(path) == path = "./test_high_transparency_teleop"

LaunchIdle ==
    /\ launch_pc = "idle"
    /\ SUDO_PASSWORD = ""
    /\ executable_path = ""
    /\ cmd = <<>>
    /\ argvs = {}
    /\ sudo_stdin = <<>>
    /\ launch_log = <<>>

MiscIdle == HvIdle /\ MenuIdle /\ LaunchIdle

SegIdle ==
    /\ detector = "none"
    /\ fault = "none"
    /\ DampIdle
    /\ TrIdle
    /\ StIdle
    /\ MiscIdle

\* floor division of integers, as Python's // on exact values
FloorDiv(a, b) == IF a >= 0 THEN a \div b ELSE -((-a + b - 1) \div b)

\* distances at which (dist_abs - startDist)//0.05, evaluated in IEEE doubles,
\* is one less than the exact quotient: 0.15 - 0.05 = 0.09999999999999999 and
\* 0.25//0.05 = 4.0
FloatLow == {15, 30}

\* variant of ChunkIdx computed in exact arithmetic
ChunkIdxExact(dist) == FloorDiv(dist - startDist, ChunkW)

\* idx = int(offset//0.05), offset = dist_abs - startDist
ChunkIdx(dist) ==
    FloorDiv(dist - startDist, ChunkW) - (IF dist \in FloatLow THEN 1 ELSE 0)

\* nChunks = int(math.floor(maxRange/0.05)): 0.25/0.05 = 5.0 in doubles
nChunks == FloorDiv(finalDistM - startDist, ChunkW)

\* chunkRecords[i]: "if idx<0 or idx>=nChunks: continue"
ChunkRecords(recs, i) ==
    SelectSeq(recs, LAMBDA r : ChunkIdx(r.dist) = i /\ i >= 0 /\ i < nChunks)

RECURSIVE SumV(_)
SumV(recs) == IF recs = <<>> THEN 0 ELSE Head(recs).v + SumV(Tail(recs))
RECURSIVE SumF(_)
SumF(recs) == IF recs = <<>> THEN 0 ELSE Head(recs).f + SumF(Tail(recs))

\* the row of chunk i: (i, ds, de, avgV, avgF, bc, N), with avgV = sumV/N and
\* avgF = sumF/N
ChunkRow(recs, i) ==
    LET samples == ChunkRecords(recs, i)
        N == Len(samples)
        ds == startDist + ChunkW * i
    IN  IF N = 0
        THEN [i |-> i, ds |-> ds, de |-> ds + ChunkW, sumV |-> 0, sumF |-> 0,
              bc |-> Zero, N |-> 0]
        ELSE [i |-> i, ds |-> ds, de |-> ds + ChunkW,
              sumV |-> SumV(samples), sumF |-> SumF(samples),
              bc |-> IF SumV(samples) < vFloor * N THEN Zero
                     ELSE <<SumF(samples), SumV(samples)>>,
              N |-> N]

\* variant of ChunkTable that leaves out the chunks without samples
ChunkTableSparse(recs) ==
    SelectSeq([k \in 1..nChunks |-> ChunkRow(recs, k - 1)], LAMBDA row : row.N > 0)

\* chunk_result_list
ChunkTable(recs) == [k \in 1..nChunks |-> ChunkRow(recs, k - 1)]

\* "if bc>0 and avgV>1e-6": the chunk enters validSumB / validCount
RowValid(row) == row.N > 0 /\ RatPos(row.bc) /\ row.sumV > vFloor * row.N

RECURSIVE ValidSumB(_)
ValidSumB(rows) ==
    IF rows = <<>> THEN Zero
    ELSE IF RowValid(Head(rows)) THEN RatAdd(Head(rows).bc, ValidSumB(Tail(rows)))
    ELSE ValidSumB(Tail(rows))

ValidCount(rows) == Len(SelectSeq(rows, RowValid))

\* B_dir = 0.0 if validCount == 0 else validSumB/validCount
OverallB(rows) ==
    IF ValidCount(rows) = 0 THEN Zero ELSE RatDivInt(ValidSumB(rows), ValidCount(rows))

\* variant of DampSample that also records the sample beyond finalDistM
DampSampleKeepLast ==
    /\ detector = "damping"
    /\ dm_pc = "sampling"
    /\ \E smp \in DampSamples :
        LET reached == reachedStart \/ smp.dist >= startDist
        IN  /\ reachedStart' = reached
            /\ dm_hist' = SamplesAfter(dm_hist, smp)
            /\ IF reached /\ smp.dist <= finalDistM
               THEN /\ Len(data_records) < MaxRecords
                    /\ data_records' = Append(data_records, smp)
                    /\ UNCHANGED dm_pc
               ELSE IF reached
               THEN dm_pc' = "reduce" /\ data_records' = Append(data_records, smp)
               ELSE UNCHANGED <<dm_pc, data_records>>
    /\ UNCHANGED <<B_dir, chunk_info, results, csv_block, detector, fault, trVars, stVars,
                   miscVars>>
    /\ UNCHANGED <<mcwVars, mdVars, sessVars>>

\* one iteration of the sampling loop
DampSample ==
    /\ detector = "damping"
    /\ dm_pc = "sampling"
    /\ \E smp \in DampSamples :
        LET reached == reachedStart \/ smp.dist >= startDist
        IN  /\ reachedStart' = reached
            /\ dm_hist' = SamplesAfter(dm_hist, smp)
            /\ IF reached /\ smp.dist <= finalDistM
               THEN /\ Len(data_records) < MaxRecords
                    /\ data_records' = Append(data_records, smp)
                    /\ UNCHANGED dm_pc
               ELSE IF reached
               THEN dm_pc' = "reduce" /\ UNCHANGED data_records
               ELSE UNCHANGED <<dm_pc, data_records>>
    /\ UNCHANGED <<B_dir, chunk_info, results, csv_block, detector, fault, trVars, stVars,
                   miscVars>>
    /\ UNCHANGED <<mcwVars, mdVars, sessVars>>

\* after the loop: the early return for fewer than 5 records, or the chunk
\* table and the overall coefficient
DampReduce ==
    /\ detector = "damping"
    /\ dm_pc = "reduce"
    /\ IF Len(data_records) < MinRecords
       THEN B_dir' = Zero /\ chunk_info' = <<>>
       ELSE /\ chunk_info' = ChunkTable(data_records)
            /\ B_dir' = OverallB(ChunkTable(data_records))
    /\ dm_pc' = "append"
    /\ UNCHANGED <<reachedStart, dm_hist, data_records, results, csv_block, detector, fault,
                   trVars, stVars, miscVars>>
    /\ UNCHANGED <<mcwVars, mdVars, sessVars>>

\* main: results.append(B_dir)
DampAppend ==
    /\ detector = "damping"
    /\ dm_pc = "append"
    /\ results' = Append(results, B_dir)
    /\ dm_pc' = "stop"
    /\ UNCHANGED <<reachedStart, dm_hist, data_records, B_dir, chunk_info, csv_block, detector,
                   fault,
                   trVars, stVars, miscVars>>
    /\ UNCHANGED <<mcwVars, mdVars, sessVars>>

\* main: stop_teleop() between results.append and the CSV block.  It returns,
\* or a killpg answers EPERM and the PermissionError leaves stop_teleop and
\* the direction loop (see StopTerm, StopProbe, StopKill).
StopOutcomes == {"returned", "PermissionError"}
DampStop ==
    /\ detector = "damping"
    /\ dm_pc = "stop"
    /\ \E out \in StopOutcomes :
        IF out = "returned"
        THEN dm_pc' = "csv" /\ UNCHANGED fault
        ELSE dm_pc' = "aborted" /\ fault' = out
    /\ UNCHANGED <<reachedStart, dm_hist, data_records, B_dir, chunk_info, results, csv_block,
                   detector,
                   trVars, stVars, miscVars>>
    /\ UNCHANGED <<mcwVars, mdVars, sessVars>>

\* main: the CSV block of the direction
DampCsv ==
    /\ detector = "damping"
    /\ dm_pc = "csv"
    /\ csv_block' = <<[rows |-> data_records, chunks |-> chunk_info, B_dir |-> B_dir]>>
    /\ dm_pc' = "done"
    /\ UNCHANGED <<reachedStart, dm_hist, data_records, B_dir, chunk_info, results, detector, fault,
                   trVars, stVars, miscVars>>
    /\ UNCHANGED <<mcwVars, mdVars, sessVars>>

\* ---------------------------------------------------- transparency trial
\* if 9.0 <= F_slave_z <= 11.0
InBand(fs) == bandLow <= fs /\ fs <= bandHigh

\* variant of TrNextData that keeps the buffer when the sample is out of band
TrNextDataKeep(data, start, smp) ==
    IF InBand(smp.fs) THEN Append(IF start = NoTime THEN <<>> ELSE data, smp) ELSE data

\* valid_data after the sample
TrNextData(data, start, smp) ==
    IF InBand(smp.fs) THEN Append(IF start = NoTime THEN <<>> ELSE data, smp) ELSE <<>>

\* valid_start_time after the sample
TrNextStart(start, smp) ==
    IF InBand(smp.fs) THEN (IF start = NoTime THEN smp.t ELSE start) ELSE NoTime

\* variant of TrDue that asks for more than the duration
TrDueStrict(start, now) == start # NoTime /\ (now - start) > tr_valid_duration

\* variant of TrDue that does not ask for a running timer
TrDueUnguarded(start, now) == (now - start) >= tr_valid_duration

\* valid_start_time is not None and (current_time - valid_start_time) >= valid_duration
TrDue(start, now) == start # NoTime /\ (now - start) >= tr_valid_duration

\* history: the samples taken since the last out-of-band sample
TrHistAfter(h, smp) ==
    IF InBand(smp.fs)
    THEN [n |-> h.n + 1, run |-> Append(h.run, smp), out |-> FALSE, broke |-> h.broke]
    ELSE [n |-> h.n + 1, run |-> <<>>, out |-> TRUE, broke |-> h.broke \/ h.run # <<>>]

\* the samples the environment may deliver next, t being the time of the read
TrInputs(t) ==
    IF tr_feed = "const"
    THEN IF tr_hist.n < FeedLen THEN {[t |-> t, fm |-> -21, fs |-> 20]} ELSE {}
    ELSE IF tr_hist.n < MaxSamples
         THEN {[t |-> t, fm |-> fm, fs |-> fs] : fm \in TrMasterVals, fs \in TrSlaveVals}
         ELSE {}

\* time.sleep(sample_interval) and the loop body up to the next read of the clock
TrDelays == IF tr_feed = "const" THEN {1} ELSE TrSteps

\* one iteration of the while True loop
TrSample ==
    /\ detector = "transparency"
    /\ tr_pc = "sampling"
    /\ \E d \in (IF tr_hist.n = 0 THEN {0} ELSE TrDelays) :
       \E smp \in TrInputs(current_time + d) :
        /\ current_time' = smp.t
        /\ valid_start_time' = TrNextStart(valid_start_time, smp)
        /\ valid_data' = TrNextData(valid_data, valid_start_time, smp)
        /\ tr_hist' = TrHistAfter(tr_hist, smp)
        /\ tr_pc' = IF TrDue(TrNextStart(valid_start_time, smp), smp.t)
                    THEN "reduce" ELSE "sampling"
    /\ UNCHANGED <<tr_feed, T_avg, test_results, tr_csv, detector, fault, dampVars, stVars,
                   miscVars>>
    /\ UNCHANGED <<mcwVars, mdVars, sessVars>>

\* one iteration of the while True loop on a stream without end: the clock
\* is read from the moment the buffer was last emptied, since the loop
\* compares current_time with valid_start_time only
TrWait ==
    /\ detector = "transparency"
    /\ tr_pc = "sampling"
    /\ \E d \in TrSteps : \E fm \in TrMasterVals, fs \in TrSlaveVals :
        LET t == IF valid_start_time = NoTime THEN 0 ELSE current_time + d
            smp == [t |-> t, fm |-> fm, fs |-> fs]
        IN  /\ InBand(fs) => Len(valid_data) < MaxSamples
            /\ current_time' = IF InBand(fs) THEN t ELSE 0
            /\ valid_start_time' = TrNextStart(valid_start_time, smp)
            /\ valid_data' = TrNextData(valid_data, valid_start_time, smp)
            /\ tr_hist' = [TrHistAfter(tr_hist, smp) EXCEPT !.n = 1]
            /\ tr_pc' = IF TrDue(TrNextStart(valid_start_time, smp), smp.t)
                        THEN "reduce" ELSE "sampling"
    /\ UNCHANGED <<tr_feed, T_avg, test_results, tr_csv, detector, fault, dampVars, stVars,
                   miscVars>>
    /\ UNCHANGED <<mcwVars, mdVars, sessVars>>

RECURSIVE SumFm(_)
SumFm(data) == IF data = <<>> THEN 0 ELSE Head(data).fm + SumFm(Tail(data))
RECURSIVE SumFs(_)
SumFs(data) == IF data = <<>> THEN 0 ELSE Head(data).fs + SumFs(Tail(data))

\* the value measure_transparency_once returns for the buffer
Transparency(data) ==
    IF data = <<>> THEN None
    ELSE IF Abs(SumFs(data)) <= sFloor * Len(data) THEN Inf
    ELSE IF SumFs(data) > 0 THEN <<-SumFm(data), SumFs(data)>>
    ELSE <<SumFm(data), -SumFs(data)>>

\* after the loop: return T_avg
TrReduce ==
    /\ detector = "transparency"
    /\ tr_pc = "reduce"
    /\ T_avg' = Transparency(valid_data)
    /\ tr_pc' = "record"
    /\ UNCHANGED <<tr_feed, current_time, valid_start_time, valid_data, test_results, tr_csv,
                   tr_hist, detector, fault, dampVars, stVars, miscVars>>
    /\ UNCHANGED <<mcwVars, mdVars, sessVars>>

\* main: if T_avg is not None: test_results.append(T_avg)
TrRecord ==
    /\ detector = "transparency"
    /\ tr_pc = "record"
    /\ test_results' = IF T_avg # None THEN Append(test_results, T_avg) ELSE test_results
    /\ tr_pc' = "csv"
    /\ UNCHANGED <<tr_feed, current_time, valid_start_time, valid_data, T_avg, tr_csv,
                   tr_hist, detector, fault, dampVars, stVars, miscVars>>
    /\ UNCHANGED <<mcwVars, mdVars, sessVars>>

\* main: one CSV row per entry of test_results
TrCsv ==
    /\ detector = "transparency"
    /\ tr_pc = "csv"
    /\ tr_csv' = test_results
    /\ tr_pc' = "done"
    /\ UNCHANGED <<tr_feed, current_time, valid_start_time, valid_data, T_avg, test_results,
                   tr_hist, detector, fault, dampVars, stVars, miscVars>>
    /\ UNCHANGED <<mcwVars, mdVars, sessVars>>

\* ------------------------------------------------------ stiffness trials
\* avg_delta = sum(d for (d, F) in seg_samples) / N
AvgDelta(seg) == <<seg.d, seg.N>>

\* K_seg = inf if abs(avg_delta) < 1e-6 else avg_Fdiff / avg_delta
KSeg(seg) ==
    IF Abs(seg.d) < dFloor * seg.N THEN KInf ELSE seg.f \div seg.d

\* variant of Pushed that never drops the oldest value
PushedNoPop(window, k) == Append(window, k)

\* variant of Pushed that evicts the newest value instead of the oldest
PushedDropNewest(window, k) ==
    LET w == Append(window, k)
    IN  IF Len(w) > stable_count THEN SubSeq(w, 1, stable_count) ELSE w

\* stable_window.append(K_seg); if len > stable_count: pop(0)
Pushed(window, k) ==
    LET w == Append(window, k)
    IN  IF Len(w) > stable_count THEN Tail(w) ELSE w

RECURSIVE SeqMax(_)
SeqMax(w) == IF Len(w) = 1 THEN w[1]
             ELSE IF w[1] > SeqMax(Tail(w)) THEN w[1] ELSE SeqMax(Tail(w))
RECURSIVE SeqMin(_)
SeqMin(w) == IF Len(w) = 1 THEN w[1]
             ELSE IF w[1] < SeqMin(Tail(w)) THEN w[1] ELSE SeqMin(Tail(w))
RECURSIVE SeqSum(_)
SeqSum(w) == IF w = <<>> THEN 0 ELSE w[1] + SeqSum(Tail(w))

\* variant of FluctOk that computes with the sentinel as with a finite number
FluctOkFinite(w) == SeqMax(w) - SeqMin(w) < max_fluctuation

\* max(stable_window) - min(stable_window) < max_fluctuation; inf - finite is
\* inf and inf - inf is nan, neither of which is below the tolerance
FluctOk(w) ==
    /\ \A k \in 1..Len(w) : w[k] # KInf
    /\ SeqMax(w) - SeqMin(w) < max_fluctuation

\* variant of Stable that accepts values equal to min_stiffness
StableLoose(w) ==
    /\ Len(w) = stable_count
    /\ \A k \in 1..Len(w) : w[k] >= min_stiffness
    /\ FluctOk(w)

\* len == stable_count, all(val > min_stiffness), fluct < max_fluctuation
Stable(w) ==
    /\ Len(w) = stable_count
    /\ \A k \in 1..Len(w) : w[k] > min_stiffness
    /\ FluctOk(w)

\* main: for i in range(trials_per_axis)
StLoop ==
    /\ detector = "stiffness"
    /\ st_pc = "loop"
    /\ IF Len(trial_values) < trials_per_axis
       THEN /\ st_pc' = "segment"
            /\ stable_window' = <<>>
            /\ segment_logs' = <<>>
            /\ delta_logs' = <<>>
       ELSE st_pc' = "average" /\ UNCHANGED <<stable_window, segment_logs, delta_logs>>
    /\ UNCHANGED <<trials_per_axis, st_K, trial_values, avg_K, st_segs, st_delta>>
    /\ UNCHANGED <<detector, fault, dampVars, trVars, miscVars, mcwVars, mdVars, sessVars>>

\* measure_stiffness_for_axis: one segment of the outer while True loop
StSegment ==
    /\ detector = "stiffness"
    /\ st_pc = "segment"
    /\ st_segs < MaxSegments
    /\ st_segs' = st_segs + 1
    /\ \E seg \in Segments :
        IF seg.N = 0
        THEN UNCHANGED <<st_pc, stable_window, segment_logs, st_K, st_delta, delta_logs>>
        ELSE LET w == Pushed(stable_window, KSeg(seg))
             IN  /\ segment_logs' = Append(segment_logs, KSeg(seg))
                 /\ delta_logs' = Append(delta_logs, AvgDelta(seg))
                 /\ stable_window' = w
                 /\ IF Stable(w)
                    THEN /\ st_K' = <<SeqSum(w), stable_count>>
                         /\ st_delta' = AvgDelta(seg)
                         /\ st_pc' = "append"
                    ELSE UNCHANGED <<st_K, st_delta, st_pc>>
    /\ UNCHANGED <<trials_per_axis, trial_values, avg_K>>
    /\ UNCHANGED <<detector, fault, dampVars, trVars, miscVars, mcwVars, mdVars, sessVars>>

\* main: trial_values.append(K)
StAppend ==
    /\ detector = "stiffness"
    /\ st_pc = "append"
    /\ trial_values' = Append(trial_values, st_K)
    /\ st_pc' = "loop"
    /\ UNCHANGED <<trials_per_axis, stable_window, segment_logs, st_K, avg_K, st_segs, st_delta,
                   delta_logs>>
    /\ UNCHANGED <<detector, fault, dampVars, trVars, miscVars, mcwVars, mdVars, sessVars>>

RECURSIVE RatSum(_)
RatSum(q) == IF q = <<>> THEN Zero ELSE RatAdd(q[1], RatSum(Tail(q)))

\* main: avg_K = sum(trial_values) / len(trial_values)
StAverage ==
    /\ detector = "stiffness"
    /\ st_pc = "average"
    /\ IF Len(trial_values) = 0
       THEN fault' = "ZeroDivisionError" /\ st_pc' = "crashed" /\ UNCHANGED avg_K
       ELSE /\ avg_K' = RatDivInt(RatSum(trial_values), Len(trial_values))
            /\ st_pc' = "done"
            /\ UNCHANGED fault
    /\ UNCHANGED <<trials_per_axis, stable_window, segment_logs, st_K, trial_values, st_segs,
                   st_delta, delta_logs>>
    /\ UNCHANGED <<detector, dampVars, trVars, miscVars, mcwVars, mdVars, sessVars>>

\* ----------------------------------------------------------- hover trial
\* dx*dx + dy*dy + dz*dz, in square micrometres
SquaredDist(a, b) ==
    (b[1] - a[1]) * (b[1] - a[1]) + (b[2] - a[2]) * (b[2] - a[2])
        + (b[3] - a[3]) * (b[3] - a[3])

\* round(dist, 2): the number of hundredths of a millimetre nearest to the
\* square root of d2 square micrometres
Round2(d2) ==
    CHOOSE r \in 0..MaxReported :
        /\ (r = 0 \/ (10 * r - 5) * (10 * r - 5) <= d2)
        /\ d2 < (10 * r + 5) * (10 * r + 5)

\* dist < 10.0
HoverSuccess(d2) == d2 < HoverLimit * HoverLimit

HoverRest == <<detector, fault, dampVars, trVars, stVars, menuVars, launchVars, mcwVars,
               mdVars, sessVars>>

\* try: pedal = leader.digital_inputs()[0] / except Exception: pedal = 0
PedalOrReleased(read) == IF read = "error" THEN "0" ELSE read

\* variant of PedalOrPressed that takes a failing read for a released pedal
PedalOrPressedNot(read) == IF read = "error" THEN "0" ELSE read

\* try: pedal = leader.digital_inputs()[0] / except Exception: pedal = 1
PedalOrPressed(read) == IF read = "error" THEN "1" ELSE read

\* main: for i in range(args.num)
HoverLoop ==
    /\ detector = "hover"
    /\ hv_pc = "loop"
    /\ hv_pc' = IF hv_i < hv_num THEN (IF is_auto THEN "auto_press" ELSE "press") ELSE "done"
    /\ UNCHANGED <<hv_num, hv_i, is_auto, hv_pedal, hv_start, hv_end, hv_dist, hv_success,
                   hv_results, fault>>
    /\ UNCHANGED <<detector, dampVars, trVars, stVars, menuVars, launchVars, mcwVars, mdVars,
                   sessVars>>

\* automatic mode: one iteration of the wait for the pedal before the move
HoverAutoPress ==
    /\ detector = "hover"
    /\ hv_pc = "auto_press"
    /\ \E read \in PedalReads :
        /\ hv_pedal' = <<"auto_press", read>>
        /\ hv_pc' = IF PedalOrReleased(read) = "1" THEN "auto_move" ELSE "auto_press"
    /\ UNCHANGED <<hv_num, hv_i, is_auto, hv_start, hv_end, hv_dist, hv_success, hv_results>>
    /\ UNCHANGED HoverRest

\* automatic mode: move_j_deg to test_pose[i-1] and test_pose[1] (if i > 0) and
\* to test_pose[i]; an index past the table raises IndexError
HoverAutoMove ==
    /\ detector = "hover"
    /\ hv_pc = "auto_move"
    /\ IF hv_i < PoseCount
       THEN hv_pc' = "auto_release" /\ UNCHANGED fault
       ELSE hv_pc' = "crashed" /\ fault' = "IndexError"
    /\ UNCHANGED <<hv_num, hv_i, is_auto, hv_pedal, hv_start, hv_end, hv_dist, hv_success,
                   hv_results>>
    /\ UNCHANGED <<detector, dampVars, trVars, stVars, menuVars, launchVars, mcwVars, mdVars,
                   sessVars>>

\* automatic mode: one iteration of the wait for the release at the test pose
HoverAutoRelease ==
    /\ detector = "hover"
    /\ hv_pc = "auto_release"
    /\ \E read \in PedalReads :
        /\ hv_pedal' = <<"auto_release", read>>
        /\ hv_pc' = IF PedalOrReleased(read) = "0" THEN "press" ELSE "auto_release"
    /\ UNCHANGED <<hv_num, hv_i, is_auto, hv_start, hv_end, hv_dist, hv_success, hv_results>>
    /\ UNCHANGED HoverRest

\* one iteration of the wait for the pedal before measure_hover
HoverPress ==
    /\ detector = "hover"
    /\ hv_pc = "press"
    /\ \E read \in PedalReads :
        /\ hv_pedal' = <<"press", read>>
        /\ hv_pc' = IF PedalOrReleased(read) = "1" THEN "measure" ELSE "press"
    /\ UNCHANGED <<hv_num, hv_i, is_auto, hv_start, hv_end, hv_dist, hv_success, hv_results>>
    /\ UNCHANGED HoverRest

\* measure_hover: start, sleep(1), end, return round(dist,2), dist<10.0
HoverMeasure ==
    /\ detector = "hover"
    /\ hv_pc = "measure"
    /\ \E st \in HoverStarts, mv \in HoverMoves :
        LET e == <<st[1] + mv[1], st[2] + mv[2], st[3] + mv[3]>>
        IN  /\ hv_start' = st
            /\ hv_end' = e
            /\ hv_dist' = Round2(SquaredDist(st, e))
            /\ hv_success' = HoverSuccess(SquaredDist(st, e))
    /\ hv_pc' = "append"
    /\ UNCHANGED <<hv_num, hv_i, is_auto, hv_pedal, hv_results>>
    /\ UNCHANGED HoverRest

\* main: results.append((dist, success))
HoverAppend ==
    /\ detector = "hover"
    /\ hv_pc = "append"
    /\ hv_results' = Append(hv_results, <<hv_dist, hv_success>>)
    /\ hv_pc' = "release"
    /\ UNCHANGED <<hv_num, hv_i, is_auto, hv_pedal, hv_start, hv_end, hv_dist, hv_success>>
    /\ UNCHANGED HoverRest

\* one iteration of the wait for the release after the trial; then the next i
HoverRelease ==
    /\ detector = "hover"
    /\ hv_pc = "release"
    /\ \E read \in PedalReads :
        /\ hv_pedal' = <<"release", read>>
        /\ IF PedalOrPressed(read) = "0"
           THEN hv_pc' = "loop" /\ hv_i' = hv_i + 1
           ELSE UNCHANGED <<hv_pc, hv_i>>
    /\ UNCHANGED <<hv_num, is_auto, hv_start, hv_end, hv_dist, hv_success, hv_results>>
    /\ UNCHANGED HoverRest

\* --------------------------------------------------- operator selections
MenuRest == <<detector, fault, dampVars, trVars, stVars, hvVars, launchVars, mcwVars, mdVars,
              sessVars>>

\* the rows that decode, in file order
RECURSIVE Decoded(_)
Decoded(rows) ==
    IF rows = <<>> THEN <<>>
    ELSE IF rows[1] = "malformed" THEN Decoded(Tail(rows))
         ELSE <<rows[1]>> \o Decoded(Tail(rows))

\* one "Error in decode pose" message per row that does not decode
RECURSIVE DecodeErrors(_)
DecodeErrors(rows) ==
    IF rows = <<>> THEN <<>>
    ELSE (IF rows[1] = "malformed" THEN <<"decode error">> ELSE <<>>)
             \o DecodeErrors(Tail(rows))

\* the history when a command is entered: the modes at that moment, no MoveJ
\* command sent by it yet, and whether an earlier command moved the robots
Entered(h) ==
    [modes |-> robot_modes, sent |-> 0, last |-> "pending", waits |-> <<>>,
     earlier |-> (h.earlier \/ h.last = "moved")]

\* save_go_pose: key = input("Enter your choice: "), commands q, g, h, other
MenuKey ==
    /\ detector = "menu"
    /\ menu_script = "save_go_pose"
    /\ menu_pc = "key"
    /\ Len(menu_log) < MaxKeys
    /\ \E key \in {"g", "h", "q", "x"} :
        CASE key = "g" ->
                /\ poses_deg' = Decoded(csv_rows)
                /\ IF Decoded(csv_rows) = <<>>
                   THEN /\ menu_pc' = "key"
                        /\ menu_log' = Append(menu_log \o DecodeErrors(csv_rows),
                                              "no saved pose")
                        /\ menu_hist' = [Entered(menu_hist) EXCEPT !.last = "refused"]
                   ELSE /\ menu_pc' = "index"
                        /\ menu_log' = menu_log \o DecodeErrors(csv_rows)
                        /\ menu_hist' = Entered(menu_hist)
                /\ UNCHANGED <<menu_exit, robot_modes>>
          [] key = "h" ->
                /\ menu_pc' = "home"
                /\ menu_hist' = Entered(menu_hist)
                /\ menu_log' = Append(menu_log, "home")
                /\ UNCHANGED <<poses_deg, menu_exit, robot_modes>>
          [] key = "q" ->
                /\ menu_pc' = "exited"
                /\ menu_exit' = "quit"
                /\ robot_modes' = [k \in 1..NRobots |-> "IDLE"]
                /\ UNCHANGED <<poses_deg, menu_log, menu_hist>>
          [] key = "x" ->
                /\ menu_log' = Append(menu_log, "invalid input")
                /\ UNCHANGED <<menu_pc, poses_deg, menu_exit, robot_modes, menu_hist>>
    /\ UNCHANGED <<menu_script, csv_rows, menu_choice, current_modes>>
    /\ UNCHANGED MenuRest

\* save_go_pose: index = int(input(...)); range test; except ValueError
MenuIndex ==
    /\ detector = "menu"
    /\ menu_script = "save_go_pose"
    /\ menu_pc = "index"
    /\ \E txt \in IndexInputs :
        IF IsNumber(txt) /\ IntOf(txt) >= 0 /\ IntOf(txt) < Len(poses_deg)
        THEN /\ menu_choice' = IntOf(txt)
             /\ menu_pc' = "move"
             /\ UNCHANGED <<menu_log, menu_hist>>
        ELSE /\ menu_log' = Append(menu_log, "invalid input")
             /\ menu_pc' = "key"
             /\ menu_hist' = [menu_hist EXCEPT !.last = "refused"]
             /\ UNCHANGED menu_choice
    /\ UNCHANGED <<menu_script, csv_rows, poses_deg, menu_exit, robot_modes, current_modes>>
    /\ UNCHANGED MenuRest

\* variant of MenuMove that reads the modes after the MoveJ commands
MenuMoveLateCapture ==
    /\ detector = "menu"
    /\ menu_script = "save_go_pose"
    /\ menu_pc \in {"move", "home"}
    /\ current_modes' = [k \in 1..NRobots |-> PrimitiveMode]
    /\ robot_modes' = [k \in 1..NRobots |-> PrimitiveMode]
    /\ menu_hist' = [menu_hist EXCEPT !.sent = @ + NRobots]
    /\ menu_pc' = "wait"
    /\ UNCHANGED <<menu_script, csv_rows, poses_deg, menu_choice, menu_exit, menu_log>>
    /\ UNCHANGED MenuRest

\* save_go_pose: current_modes = [robot.mode() ...]; move_j_deg for every
\* robot (SwitchMode(NRT_PRIMITIVE_EXECUTION), ExecutePrimitive("MoveJ"))
MenuMove ==
    /\ detector = "menu"
    /\ menu_script = "save_go_pose"
    /\ menu_pc \in {"move", "home"}
    /\ current_modes' = robot_modes
    /\ robot_modes' = [k \in 1..NRobots |-> PrimitiveMode]
    /\ menu_hist' = [menu_hist EXCEPT !.sent = @ + NRobots]
    /\ menu_pc' = "wait"
    /\ UNCHANGED <<menu_script, csv_rows, poses_deg, menu_choice, menu_exit, menu_log>>
    /\ UNCHANGED MenuRest

\* save_go_pose: wait_for_reached_or_timeout for every robot
MenuWait ==
    /\ detector = "menu"
    /\ menu_script = "save_go_pose"
    /\ menu_pc = "wait"
    /\ \E ends \in [1..NRobots -> {"reached", "timeout"}] :
        menu_hist' = [menu_hist EXCEPT !.waits = ends]
    /\ menu_pc' = "restore"
    /\ UNCHANGED <<menu_script, csv_rows, poses_deg, menu_choice, menu_exit, menu_log,
                   robot_modes, current_modes>>
    /\ UNCHANGED MenuRest

\* save_go_pose: robot.SwitchMode(mode_val) for every robot; back to the menu
MenuRestore ==
    /\ detector = "menu"
    /\ menu_script = "save_go_pose"
    /\ menu_pc = "restore"
    /\ robot_modes' = current_modes
    /\ menu_hist' = [menu_hist EXCEPT !.last = "moved"]
    /\ menu_pc' = "key"
    /\ UNCHANGED <<menu_script, csv_rows, poses_deg, menu_choice, menu_exit, menu_log,
                   current_modes>>
    /\ UNCHANGED MenuRest

\* main() of a measurement script: the executable selection.  A Python list
\* index of -1 is the last entry; any other index outside the list raises
\* IndexError, and int() of a non-number raises ValueError.
SelectExe ==
    /\ detector = "menu"
    /\ menu_script \in CheckedSelect \cup UncheckedSelect
    /\ menu_pc = "select"
    /\ \E txt \in IndexInputs :
        IF menu_script \in CheckedSelect
        THEN IF IsNumber(txt) /\ IntOf(txt) >= 0 /\ IntOf(txt) < ListLen
             THEN /\ menu_choice' = IntOf(txt)
                  /\ menu_pc' = "chosen"
                  /\ UNCHANGED <<menu_exit, menu_log>>
             ELSE /\ menu_log' = Append(menu_log, "invalid input")
                  /\ menu_pc' = "exited"
                  /\ menu_exit' = "exit1"
                  /\ UNCHANGED menu_choice
        ELSE IF IsNumber(txt) /\ IntOf(txt) >= -ListLen /\ IntOf(txt) < ListLen
             THEN /\ menu_choice' = (IntOf(txt) + ListLen) % ListLen
                  /\ menu_pc' = "chosen"
                  /\ UNCHANGED <<menu_exit, menu_log>>
             ELSE /\ menu_pc' = "exited"
                  /\ menu_exit' = "traceback"
                  /\ UNCHANGED <<menu_choice, menu_log>>
    /\ UNCHANGED <<menu_script, csv_rows, poses_deg, robotVars>>
    /\ UNCHANGED MenuRest

\* --------------------------------------------------------- launch command
LaunchRest == <<detector, fault, dampVars, trVars, stVars, hvVars, menuVars, mcwVars, mdVars,
                sessVars>>

\* cmd = f"echo {SUDO_PASSWORD} | sudo -S {executable_path} -l ... -r ..."
\* (-1 ... -2 ... for the other executables)
LaunchCommand(pw, path) ==
    <<"echo", pw, "|", "sudo", "-S", path>>
        \o (IF HighTransparency(path) THEN <<"-l", "leader_sn", "-r", "follower_sn">>
            ELSE <<"-1", "leader_sn", "-2", "follower_sn">>)

\* start_teleop: the command string is built
LaunchBuild ==
    /\ detector = "launch"
    /\ launch_pc = "build"
    /\ cmd' = LaunchCommand(SUDO_PASSWORD, executable_path)
    /\ launch_pc' = "popen"
    /\ UNCHANGED <<SUDO_PASSWORD, executable_path, argvs, sudo_stdin, launch_log>>
    /\ UNCHANGED LaunchRest

\* subprocess.Popen(cmd, shell=True, preexec_fn=os.setsid): the shell is run
\* as /bin/sh -c cmd, its pipeline runs sudo with the words after "|", and
\* the echo (a builtin of the shell) writes the words before "|" to the pipe
LaunchPopen ==
    /\ detector = "launch"
    /\ launch_pc = "popen"
    /\ argvs' = { <<"/bin/sh", "-c">> \o cmd, SubSeq(cmd, 4, Len(cmd)) }
    /\ sudo_stdin' = SubSeq(cmd, 2, 2)
    /\ launch_pc' = "print"
    /\ UNCHANGED <<SUDO_PASSWORD, executable_path, cmd, launch_log>>
    /\ UNCHANGED LaunchRest

\* print(f"[StartTeleop] pattern=({teleop_pattern}), cmd=({cmd}), pid={pid}")
LaunchPrint ==
    /\ detector = "launch"
    /\ launch_pc = "print"
    /\ launch_log' = Append(launch_log, <<"[StartTeleop]", "pattern", "cmd">> \o cmd \o <<"pid">>)
    /\ launch_pc' = "done"
    /\ UNCHANGED <<SUDO_PASSWORD, executable_path, cmd, argvs, sudo_stdin>>
    /\ UNCHANGED LaunchRest

\* ------------------------------------------------------- specification
NoHist == [started |-> FALSE, sigint |-> FALSE, stopAfterInt |-> FALSE,
           faulted |-> FALSE, stopAfterFault |-> FALSE, permErr |-> FALSE,
           nestedInt |-> FALSE, nestedErr |-> FALSE, measured |-> 0, blocks |-> 0,
           steps |-> <<>>, startInt |-> "none"]

\* the detectors before any sample has been taken
DetIdle ==
    /\ set_value = 0
    /\ mcw_now = 0
    /\ valid_start = NoTime
    /\ slave_values = <<>>
    /\ mcw_closed = FALSE
    /\ mcw_exceeded = FALSE
    /\ mcw_hist = NoRun
    /\ avg_slave = <<0, 1>>
    /\ error_percent = <<0, 1>>
    /\ mcw_returned = FALSE
    /\ is_rotation = FALSE
    /\ md_pc = "pedal"
    /\ measured_value = NoValue
    /\ md_exceeded = FALSE
    /\ trials = <<>>
    /\ md_hist = NoCrossing
    /\ SegIdle

Init ==
    /\ DetIdle
    /\ script \in Scripts
    /\ stack = <<Frame("main", IF script = "transparency_measure" THEN "m_start" ELSE "m_sync")>>
    /\ teleop_pid = NoPid
    /\ teleop_pattern = NoPattern
    /\ procs = {}
    /\ spawned = 0
    /\ dirIdx = 1
    /\ exited = "no"
    /\ interrupts = 0
    /\ csvClosed = FALSE
    /\ lastStop = NoStop
    /\ stoppedSinceStart = FALSE
    /\ hist = NoHist

Next ==
    \/ MainSync \/ MainStart \/ MainSettle \/ MainPedal \/ MainMeasure \/ MainFault
    \/ MainStop \/ MainCsv \/ MainSummary \/ MainExcept \/ MainSysExit \/ MainFinally
    \/ MainClose \/ MainEnd
    \/ StartPattern \/ StartPopen \/ StartPid \/ StartSleep
    \/ StopGetpgid \/ StopTerm \/ StopTermDenied \/ StopProbe
    \/ StopProbeDenied \/ StopKill \/ StopKillDenied \/ StopClearPid
    \/ StopPkill \/ StopClearPattern
    \/ Interrupt \/ HandlerStop \/ HandlerExit
    \/ EnvDie \/ EnvEscape

Spec == Init /\ [][Next]_vars

\* ------------------------- threshold-crossing detectors (no teleop launch)
\* the session variables while a detector is studied on its own
SessIdle ==
    /\ script = "none"
    /\ stack = <<>>
    /\ teleop_pid = NoPid
    /\ teleop_pattern = NoPattern
    /\ procs = {}
    /\ spawned = 0
    /\ dirIdx = 1
    /\ exited = "no"
    /\ interrupts = 0
    /\ csvClosed = FALSE
    /\ lastStop = NoStop
    /\ stoppedSinceStart = FALSE
    /\ hist = NoHist

\* variant of McwSample that keeps the buffered samples when the master
\* force is below the setpoint
McwSampleKeepBuffer ==
    /\ ~mcw_closed
    /\ mcw_now < MaxTime
    /\ \E fm \in MasterVals, fs \in SlaveVals, d \in 1..MaxStep :
        LET valid == Abs(fm) >= set_value
            vs == IF valid THEN (IF valid_start = NoTime THEN mcw_now ELSE valid_start)
                  ELSE NoTime
            buf == IF valid
                   THEN Append(IF valid_start = NoTime THEN <<>> ELSE slave_values, fs)
                   ELSE slave_values
            close == vs # NoTime /\ (mcw_now - vs) >= valid_duration
        IN  /\ valid_start' = vs
            /\ slave_values' = buf
            /\ mcw_closed' = close
            /\ mcw_now' = IF close THEN mcw_now ELSE mcw_now + d
            /\ mcw_exceeded' = (mcw_exceeded \/ Abs(fm) > set_value)
            /\ mcw_hist' = RunAfter(mcw_hist, mcw_now, fm, fs)
    /\ UNCHANGED <<set_value, avg_slave, error_percent, mcw_returned, mdVars, segVars, sessVars>>

\* measure_max_contact_error: one iteration of the while True loop
McwSample ==
    /\ ~mcw_closed
    /\ mcw_now < MaxTime
    /\ \E fm \in MasterVals, fs \in SlaveVals, d \in 1..MaxStep :
        LET valid == Abs(fm) >= set_value
            vs == IF valid THEN (IF valid_start = NoTime THEN mcw_now ELSE valid_start)
                  ELSE NoTime
            buf == IF valid
                   THEN Append(IF valid_start = NoTime THEN <<>> ELSE slave_values, fs)
                   ELSE <<>>
            close == vs # NoTime /\ (mcw_now - vs) >= valid_duration
        IN  /\ valid_start' = vs
            /\ slave_values' = buf
            /\ mcw_closed' = close
            /\ mcw_now' = IF close THEN mcw_now ELSE mcw_now + d
            /\ mcw_exceeded' = (mcw_exceeded \/ Abs(fm) > set_value)
            /\ mcw_hist' = RunAfter(mcw_hist, mcw_now, fm, fs)
    /\ UNCHANGED <<set_value, avg_slave, error_percent, mcw_returned, mdVars, segVars, sessVars>>

\* sum(slave_values)
RECURSIVE SumSlave(_)
SumSlave(q) == IF q = <<>> THEN 0 ELSE q[1] + SumSlave(Tail(q))

\* avg_slave = sum(slave_values)/len(slave_values) if slave_values else 0.0
AvgSlave(q) == IF q = <<>> THEN Zero ELSE <<SumSlave(q), Len(q)>>

\* abs(avg_slave - set_value)/set_value * 100 if set_value != 0 else float('inf')
ErrorPercent(avg, sv) ==
    IF sv = 0 THEN Inf
    ELSE <<100 * Abs(avg[1] - sv * avg[2]), avg[2] * sv>>

\* measure_max_contact_error: after the loop
McwReduce ==
    /\ mcw_closed
    /\ ~mcw_returned
    /\ avg_slave' = AvgSlave(slave_values)
    /\ error_percent' = ErrorPercent(AvgSlave(slave_values), set_value)
    /\ mcw_returned' = TRUE
    /\ UNCHANGED <<set_value, mcw_now, valid_start, slave_values, mcw_closed, mcw_exceeded,
                   mcw_hist, mdVars, segVars, sessVars>>

\* measure_drag_for_axis: threshold = angular_threshold if is_rotation else linear_threshold
Threshold == IF is_rotation THEN angular_threshold ELSE linear_threshold

\* measure_drag_for_axis: one iteration of the pedal wait; moving = False,
\* measured_value = None once the pedal is seen pressed
MdPedal ==
    /\ md_pc = "pedal"
    /\ \E read \in PedalReads :
        IF PedalOrReleased(read) = "1"
        THEN /\ md_pc' = "sampling"
             /\ measured_value' = NoValue
             /\ md_exceeded' = FALSE
             /\ md_hist' = [md_hist EXCEPT !.crossed = FALSE, !.quiet = FALSE, !.read = read]
        ELSE /\ md_hist' = [md_hist EXCEPT !.read = read]
             /\ UNCHANGED <<md_pc, measured_value, md_exceeded>>
    /\ UNCHANGED <<is_rotation, trials, mcwVars, segVars, sessVars>>

\* variant of MdSample that reads the wrench from another snapshot
MdSampleStale ==
    /\ md_pc = "sampling"
    /\ \E v \in VelVals, w \in WrenchVals, w2 \in WrenchVals :
        /\ IF Abs(v) >= Threshold
           THEN measured_value' = Abs(w2) /\ md_pc' = "done"
           ELSE UNCHANGED <<measured_value, md_pc>>
        /\ md_exceeded' = (md_exceeded \/ Abs(v) > Threshold)
        /\ md_hist' = CrossingAfter(md_hist, is_rotation, v, w)
    /\ UNCHANGED <<is_rotation, trials, mcwVars, segVars, sessVars>>

\* measure_drag_for_axis: one iteration of "while not moving"
MdSample ==
    /\ md_pc = "sampling"
    /\ \E v \in VelVals, w \in WrenchVals :
        /\ IF Abs(v) >= Threshold
           THEN measured_value' = Abs(w) /\ md_pc' = "done"
           ELSE UNCHANGED <<measured_value, md_pc>>
        /\ md_exceeded' = (md_exceeded \/ Abs(v) > Threshold)
        /\ md_hist' = CrossingAfter(md_hist, is_rotation, v, w)
    /\ UNCHANGED <<is_rotation, trials, mcwVars, segVars, sessVars>>

\* measure_drag_for_axis: trials.append(measured_value), next trial or return
MdAppend ==
    /\ md_pc = "done"
    /\ trials' = Append(trials, measured_value)
    /\ md_pc' = IF Len(trials) + 1 < nTrials THEN "pedal" ELSE "returned"
    /\ UNCHANGED <<is_rotation, measured_value, md_exceeded, md_hist, mcwVars, segVars,
                   sessVars>>

InitThreshold ==
    /\ SessIdle
    /\ set_value \in SetValues
    /\ mcw_now = 0
    /\ valid_start = NoTime
    /\ slave_values = <<>>
    /\ mcw_closed = FALSE
    /\ mcw_exceeded = FALSE
    /\ mcw_hist = NoRun
    /\ avg_slave = <<0, 1>>
    /\ error_percent = <<0, 1>>
    /\ mcw_returned = FALSE
    /\ is_rotation \in BOOLEAN
    /\ md_pc = "pedal"
    /\ measured_value = NoValue
    /\ md_exceeded = FALSE
    /\ trials = <<>>
    /\ md_hist = NoCrossing
    /\ SegIdle

NextThreshold == McwSample \/ McwReduce \/ MdPedal \/ MdSample \/ MdAppend

SpecThreshold == InitThreshold /\ [][NextThreshold]_vars

\* =============================================================== properties
\* History kept for the properties:
\*   hist.sigint         a SIGINT arrived after start_teleop had been called
\*   hist.stopAfterInt   a stop_teleop call begun after the latest SIGINT returned
\*   hist.faulted        the measurement body raised an exception
\*   hist.stopAfterFault a stop_teleop call begun after that exception returned
\*   hist.permErr        a stop_teleop call ended by raising
\*   hist.nestedInt      a SIGINT arrived while a stop_teleop call was in progress
\*   hist.measured       measurement bodies that ran to their end
\*   hist.blocks         CSV outputs that ran to their end
\*   lastStop            outcome, signals sent and entry state of the stop_teleop
\*                       call that finished last since the latest start_teleop

\* C1: in each of the five launching scripts, once a SIGINT has arrived after
\* start_teleop was called, the process does not exit before a stop_teleop call
\* made for that interrupt has run to completion.
C1_InterruptStopsBeforeExit ==
    (exited # "no" /\ hist.sigint) => hist.stopAfterInt

\* C2: in each of the five launching scripts, once the measurement body has
\* raised an exception after start_teleop, the process does not exit before a
\* stop_teleop call made for that exception has run.
C2_FaultStopsBeforeExit ==
    (exited # "no" /\ hist.faulted) => hist.stopAfterFault

\* C3: after stop_teleop has returned, no process of the tree created by the
\* most recent start_teleop is alive, whether it stayed in the process group
\* or left it.
C3_NothingAliveAfterStop ==
    lastStop.outcome = "returned" => \A p \in procs : p[1] # spawned

\* C4: no stop_teleop call ends by raising an exception to its caller,
\* whatever the system calls it makes answer.
C4_StopNeverRaises ==
    lastStop.outcome # "raised"

\* C5: a stop_teleop call made after another one has returned, with no
\* start_teleop in between, sends no signal, runs no sweep, does not raise and
\* finds and leaves teleop_pid = None and teleop_pattern = None.
C5_SecondStopIsNoOp ==
    /\ \A i \in 1..Len(stack) :
        (stack[i].fn = "stop" /\ stack[i].second)
            => (stack[i].sent = {} /\ teleop_pid = NoPid /\ teleop_pattern = NoPattern)
    /\ lastStop.second
        => (/\ lastStop.outcome = "returned"
            /\ lastStop.sent = {}
            /\ teleop_pid = NoPid
            /\ teleop_pattern = NoPattern)

\* C5 happens: a second stop_teleop call in succession has returned
C5_Witness ==
    lastStop.outcome = "returned" /\ lastStop.second

C7_SweepAlwaysRuns ==
    (lastStop.outcome # "none" /\ lastStop.had)
        => lastStop.sent \cap {"SWEEP", "SWEEP_ERR"} # {}

\* C8: start_teleop is entered only with teleop_pid = None, every start_teleop
\* after the first follows a stop_teleop call that returned, and the
\* assignment teleop_pid = pid never overwrites a handle.
C8_StartOnlyWithoutHandle ==
    /\ At("start", "s_pattern") => (teleop_pid = NoPid /\ (spawned = 0 \/ stoppedSinceStart))
    /\ At("start", "s_pid") => teleop_pid = NoPid

\* C8 happens: start_teleop is entered for a later direction of drag_measure
C8_Witness ==
    At("start", "s_pattern") /\ spawned >= 1

\* C9: when a SIGINT has arrived while a stop_teleop call was in progress, no
\* stop_teleop call raises, and at process exit the external tree is dead.
C9_NestedStopIsSafe ==
    (exited # "no" /\ hist.nestedInt) => (~hist.permErr /\ procs = {})

\* C10: if no sample had an absolute value above the threshold, the
\* max-contact-wrench detector has not left its loop and the minimum-drag
\* detector has not recorded a value.
C10_NoCrossingNoClose ==
    /\ mcw_closed => mcw_exceeded
    /\ md_pc = "done" => md_exceeded

InitSegments ==
    /\ SessIdle
    /\ set_value = 0
    /\ mcw_now = 0
    /\ valid_start = NoTime
    /\ slave_values = <<>>
    /\ mcw_closed = FALSE
    /\ mcw_exceeded = FALSE
    /\ mcw_hist = NoRun
    /\ avg_slave = <<0, 1>>
    /\ error_percent = <<0, 1>>
    /\ mcw_returned = FALSE
    /\ is_rotation = FALSE
    /\ md_pc = "pedal"
    /\ measured_value = NoValue
    /\ md_exceeded = FALSE
    /\ trials = <<>>
    /\ md_hist = NoCrossing
    /\ fault = "none"
    /\ detector \in {"damping", "transparency", "stiffness", "hover", "menu", "launch"}
    /\ dm_pc = IF detector = "damping" THEN "sampling" ELSE "idle"
    /\ reachedStart = FALSE
    /\ dm_hist = NoSamples
    /\ data_records = <<>>
    /\ B_dir = Zero
    /\ chunk_info = <<>>
    /\ results = <<>>
    /\ csv_block = <<>>
    /\ tr_pc = IF detector = "transparency" THEN "sampling" ELSE "idle"
    /\ tr_feed \in (IF detector = "transparency" THEN {"free", "const"} ELSE {"free"})
    /\ current_time = 0
    /\ valid_start_time = NoTime
    /\ valid_data = <<>>
    /\ T_avg = None
    /\ test_results = <<>>
    /\ tr_csv = <<>>
    /\ tr_hist = NoTrHist
    /\ st_pc = IF detector = "stiffness" THEN "loop" ELSE "idle"
    /\ trials_per_axis \in (IF detector = "stiffness" THEN TrialCounts ELSE {0})
    /\ stable_window = <<>>
    /\ segment_logs = <<>>
    /\ st_K = None
    /\ trial_values = <<>>
    /\ avg_K = None
    /\ st_segs = 0
    /\ st_delta = None
    /\ delta_logs = <<>>
    /\ hv_pc = IF detector = "hover" THEN "loop" ELSE "idle"
    /\ hv_num \in (IF detector = "hover" THEN 0..(PoseCount + 1) ELSE {0})
    /\ hv_i = 0
    /\ is_auto \in (IF detector = "hover" THEN BOOLEAN ELSE {FALSE})
    /\ hv_pedal = NoRead
    /\ hv_start = NoPose
    /\ hv_end = NoPose
    /\ hv_dist = 0
    /\ hv_success = FALSE
    /\ hv_results = <<>>
    /\ menu_script \in (IF detector = "menu"
                         THEN {"save_go_pose"} \cup CheckedSelect \cup UncheckedSelect
                         ELSE {""})
    /\ menu_pc = (IF detector # "menu" THEN "idle"
                  ELSE IF menu_script = "save_go_pose" THEN "key" ELSE "select")
    /\ csv_rows \in (IF menu_script = "save_go_pose" THEN PoseFiles ELSE {<<>>})
    /\ poses_deg = <<>>
    /\ menu_choice = NoChoice
    /\ menu_exit = "no"
    /\ menu_log = <<>>
    /\ robot_modes \in (IF menu_script = "save_go_pose" THEN [1..NRobots -> Modes] ELSE {<<>>})
    /\ current_modes = <<>>
    /\ menu_hist = NoMenuHist
    /\ launch_pc = IF detector = "launch" THEN "build" ELSE "idle"
    /\ SUDO_PASSWORD \in (IF detector = "launch" THEN Secrets ELSE {""})
    /\ executable_path \in (IF detector = "launch" THEN Executables ELSE {""})
    /\ cmd = <<>>
    /\ argvs = {}
    /\ sudo_stdin = <<>>
    /\ launch_log = <<>>

NextSegments ==
    \/ DampSample \/ DampReduce \/ DampAppend \/ DampStop \/ DampCsv
    \/ TrSample \/ TrReduce \/ TrRecord \/ TrCsv
    \/ StLoop \/ StSegment \/ StAppend \/ StAverage
    \/ HoverLoop \/ HoverAutoPress \/ HoverAutoMove \/ HoverAutoRelease
    \/ HoverPress \/ HoverMeasure \/ HoverAppend \/ HoverRelease
    \/ MenuKey \/ MenuIndex \/ MenuMove \/ MenuWait \/ MenuRestore \/ SelectExe
    \/ LaunchBuild \/ LaunchPopen \/ LaunchPrint

SpecSegments == InitSegments /\ [][NextSegments]_vars

\* the two detectors that wait for a condition of the stream, each loop
\* thread running its next iteration whenever it has one
InitWaits ==
    /\ InitSegments
    /\ detector \in {"damping", "transparency"}
    /\ tr_feed = "free"

NextWaits ==
    \/ DampSample \/ DampReduce \/ DampAppend \/ DampStop \/ DampCsv
    \/ TrWait \/ TrReduce \/ TrRecord \/ TrCsv

SpecWaits == InitWaits /\ [][NextWaits]_vars /\ WF_vars(NextWaits)

\* the two detectors that close on elapsed time, one of them per behaviour
InitBuffers ==
    \/ InitThreshold
    \/ InitSegments /\ detector = "transparency"

NextBuffers ==
    \/ detector = "none" /\ McwSample
    \/ detector = "none" /\ McwReduce
    \/ TrSample \/ TrReduce \/ TrRecord \/ TrCsv

SpecBuffers == InitBuffers /\ [][NextBuffers]_vars

\* the pedal gates of min_drag_ft_measure and of float_offset_measure, one
\* script per behaviour
InitGates ==
    \/ InitThreshold
    \/ InitSegments /\ detector = "hover"

NextGates ==
    \/ detector = "none" /\ MdPedal
    \/ detector = "none" /\ MdSample
    \/ detector = "none" /\ MdAppend
    \/ HoverLoop \/ HoverAutoPress \/ HoverAutoMove \/ HoverAutoRelease
    \/ HoverPress \/ HoverMeasure \/ HoverAppend \/ HoverRelease

SpecGates == InitGates /\ [][NextGates]_vars

\* the damping run has left its sampling loop and returned
DampReturned == dm_pc \in {"append", "stop", "csv", "done", "aborted"}

\* C12: every recorded sample of a damping run has a distance within
\* [startDist, finalDistM].
C12_RecordedWithinWindow ==
    \A k \in 1..Len(data_records) :
        data_records[k].dist >= startDist /\ data_records[k].dist <= finalDistM

\* the recorded samples whose distance lies in [startDist, finalDistM]
InWindow(r) == r.dist >= startDist /\ r.dist <= finalDistM

RECURSIVE SumN(_)
SumN(rows) == IF rows = <<>> THEN 0 ELSE Head(rows).N + SumN(Tail(rows))

DenseTable(rows) ==
    /\ Len(rows) = nChunks
    /\ \A k \in 1..Len(rows) :
        /\ rows[k].i = k - 1
        /\ rows[k].N = Len(ChunkRecords(data_records, k - 1))
        /\ rows[k].N = 0 =>
            (rows[k].sumV = 0 /\ rows[k].sumF = 0 /\ rows[k].bc = Zero)

\* C14 as stated: the chunk table returned by every damping run is dense.
C14_TableDenseEveryRun ==
    DampReturned => DenseTable(chunk_info)

\* C14 amended: the chunk table returned by a damping run that recorded at
\* least 5 samples is dense: one row per chunk index 0..nChunks-1, a chunk
\* without samples being a row of zeros with count 0. (A run with fewer than 5
\* records returns an empty table.)
C14_TableDenseWhenReduced ==
    (DampReturned /\ Len(data_records) >= MinRecords) => DenseTable(chunk_info)

\* C14 happens: a reduced run has a chunk that received no sample
C14_Witness ==
    /\ DampReturned
    /\ Len(data_records) >= MinRecords
    /\ \E k \in 1..Len(chunk_info) : chunk_info[k].N = 0

\* a chunk with at least one sample, a mean |velocity| at or above the floor
\* and a coefficient > 0
Qualifies(row) == row.N >= 1 /\ row.sumV >= vFloor * row.N /\ RatPos(row.bc)

RECURSIVE SumBc(_)
SumBc(rows) == IF rows = <<>> THEN Zero ELSE RatAdd(Head(rows).bc, SumBc(Tail(rows)))

MeanOfQualifying(rows) ==
    LET q == SelectSeq(rows, Qualifies)
    IN  IF q = <<>> THEN Zero ELSE RatDivInt(SumBc(q), Len(q))

\* C15: the overall coefficient returned equals the arithmetic mean of the
\* coefficients of the chunks of the returned table that have at least one
\* sample and a mean |velocity| at or above the floor (coefficient > 0), and
\* is 0 when no chunk qualifies.
C15_OverallIsMeanOfQualifying ==
    DampReturned => RatEq(B_dir, MeanOfQualifying(chunk_info))

\* the transparency detector has left its loop
TrClosed == tr_pc \in {"reduce", "record", "csv", "done"}

\* C17: in the transparency detector a sample whose F_slave is outside
\* [9 N, 11 N] leaves the start time cleared and the buffer empty; and when the
\* loop has ended, the buffer is exactly the samples read since the last
\* out-of-band sample, all of them in band, the first of them started the
\* timer, and at least valid_duration lies between it and the last sample.
C17_InBandSpanOnly ==
    /\ (tr_hist.out /\ ~TrClosed) => (valid_start_time = NoTime /\ valid_data = <<>>)
    /\ TrClosed =>
        /\ valid_data = tr_hist.run
        /\ valid_data # <<>>
        /\ \A k \in 1..Len(valid_data) : InBand(valid_data[k].fs)
        /\ valid_start_time = valid_data[1].t
        /\ valid_data[Len(valid_data)].t - valid_data[1].t >= tr_valid_duration

\* C17 happens: the detector closes on a span that follows an out-of-band sample
C17_Witness ==
    TrClosed /\ tr_hist.broke /\ Len(valid_data) >= 2

\* C18: fed 10.0 N / -10.5 N at 10 Hz, the detector closes at the sample taken
\* 3.0 s after the first one (the 31st sample, with input left over), and the
\* value it returns is 1.05.
C18_ConstantFeed ==
    tr_feed = "const" =>
        /\ TrClosed <=> tr_hist.n = 31
        /\ TrClosed =>
            /\ current_time - valid_data[1].t = tr_valid_duration
            /\ valid_data[1].t = 0
            /\ tr_hist.n < FeedLen
        /\ tr_pc \in {"record", "csv", "done"} => RatEq(T_avg, <<105, 100>>)

\* C18 happens: the constant feed has been reduced to a value
C18_Witness ==
    tr_feed = "const" /\ tr_pc = "done" /\ tr_csv # <<>>

\* the last n entries of a sequence
LastN(q, n) == SubSeq(q, Len(q) - n + 1, Len(q))

\* C16: when measure_stiffness_for_axis has returned, the value returned is
\* the arithmetic mean of stable_count buffered values, these are the
\* stable_count most recent segment values, each of them is greater than
\* min_stiffness, and their max minus min is below max_fluctuation.
C16_StableMean ==
    st_pc = "append" =>
        /\ Len(stable_window) = stable_count
        /\ Len(segment_logs) >= stable_count
        /\ stable_window = LastN(segment_logs, stable_count)
        /\ RatEq(st_K, <<SeqSum(stable_window), stable_count>>)
        /\ \A k \in 1..Len(stable_window) :
            stable_window[k] > min_stiffness /\ stable_window[k] # KInf
        /\ SeqMax(stable_window) - SeqMin(stable_window) < max_fluctuation

\* C16 happens: the detector returns after older segments left the window
C16_Witness ==
    st_pc = "append" /\ Len(segment_logs) > stable_count

\* C19: no metric computation of a script raises a division fault.
C19_NoDivisionFault ==
    fault # "ZeroDivisionError"

\* C20: a damping direction that returned with fewer than MinRecords records
\* has B_dir = 0, that value is in the results list, and once the direction
\* is over it is in the CSV block of the direction; a transparency trial
\* that is over is represented in the persisted results.
C20_ShortSegmentReported ==
    /\ (Len(data_records) < MinRecords /\ dm_pc \in {"stop", "csv", "done", "aborted"}) =>
           (B_dir = Zero /\ results = <<Zero>>)
    /\ (Len(data_records) < MinRecords /\ dm_pc \in {"done", "aborted"}) =>
           csv_block = <<[rows |-> data_records, chunks |-> <<>>, B_dir |-> Zero]>>
    /\ tr_pc = "done" => (T_avg # None /\ tr_csv = <<T_avg>>)

\* C21: measure_hover reports the 3D displacement between the pose before
\* and the pose after the one-second wait, rounded to hundredths of a
\* millimetre; the trial is a success exactly when the displacement is
\* strictly below 10 mm; a reported distance of 10.0 mm is never paired with
\* success; a move of (3, 4, 0) mm is reported as 5.00 mm and success.
C21_HoverDistanceAndClass ==
    hv_pc \in {"append", "release"} =>
        LET d2 == SquaredDist(hv_start, hv_end)
        IN  /\ (10 * hv_dist - 5) * (10 * hv_dist - 5) <= d2 \/ hv_dist = 0
            /\ d2 < (10 * hv_dist + 5) * (10 * hv_dist + 5)
            /\ hv_success <=> d2 < HoverLimit * HoverLimit
            /\ ~(hv_dist = 1000 /\ hv_success)
            /\ (hv_end[1] - hv_start[1] = 3000 /\ hv_end[2] - hv_start[2] = 4000
                    /\ hv_end[3] = hv_start[3]) => (hv_dist = 500 /\ hv_success)

\* a rational number that is not negative
RatNonNeg(a) == a[1] * a[2] >= 0

\* C22: the error returned by measure_max_contact_error is
\* |mean_slave - setpoint| / |setpoint| * 100 for a non-zero setpoint and the
\* infinite sentinel for a zero setpoint, hence never negative.
C22_ErrorIsAbsolutePercent ==
    mcw_returned =>
        /\ RatEq(avg_slave, <<SumSlave(mcw_hist.run), Len(mcw_hist.run)>>)
        /\ IF set_value = 0
           THEN error_percent = Inf
           ELSE /\ RatEq(error_percent,
                        <<100 * Abs(SumSlave(slave_values) - set_value * Len(slave_values)),
                          Len(slave_values) * Abs(set_value)>>)
                /\ RatNonNeg(error_percent)

\* C23: the mean error returned with the stiffness is the mean error over
\* the stable window (all stable_count segments) the stiffness was computed
\* from.
C23_ErrorOfSameWindow ==
    st_pc = "append" =>
        /\ Len(delta_logs) = Len(segment_logs)
        /\ RatEq(st_delta,
                 RatDivInt(RatSum(LastN(delta_logs, stable_count)), stable_count))

\* the sequence without its last entry
Front(q) == SubSeq(q, 1, Len(q) - 1)

C25_CollectedDataFlushed ==
    exited \in {"exit", "traceback"} =>
        /\ hist.blocks = hist.measured
        /\ script = "drag_measure" => csvClosed

\* C26: an operator-input error never ends the session: after an invalid
\* selection the script has reported it and is at a selection step again,
\* and the 'g' command offers exactly the pose records that decode, having
\* reported the others.
C26_InputErrorNeverAborts ==
    /\ menu_exit \in {"no", "quit"}
    /\ menu_pc = "index" =>
        /\ poses_deg = Decoded(csv_rows)
        /\ Len(poses_deg) > 0
    /\ menu_pc = "move" => (menu_choice >= 0 /\ menu_choice < Len(poses_deg))

\* a word occurs in a sequence of words
Holds(q, word) == \E i \in 1..Len(q) : q[i] = word

\* C27: the privilege secret reaches only the standard input of the
\* privilege-elevation front end: it is in no argument vector of a spawned
\* process, not in the command string, and not in a printed line.
C27_SecretOnlyToFrontEnd ==
    launch_pc # "idle" =>
        /\ ~Holds(cmd, SUDO_PASSWORD)
        /\ \A av \in argvs : ~Holds(av, SUDO_PASSWORD)
        /\ \A k \in 1..Len(launch_log) : ~Holds(launch_log[k], SUDO_PASSWORD)

\* C29: the damping sampling loop ends at the first sample beyond
\* finalDistM and for no other reason: while it runs no such sample has been
\* read, and once it has ended exactly one has, it is the last sample read
\* (no sample has been read since), and it is not among the records.
C29_EndsAtFirstOvershoot ==
    /\ dm_pc = "sampling" => dm_hist.overs = 0
    /\ DampReturned =>
        /\ dm_hist.overs = 1
        /\ dm_hist.last > finalDistM
        /\ \A k \in 1..Len(data_records) : data_records[k].dist <= finalDistM

\* C29 happens: the loop has ended after recording several samples
C29_Witness ==
    DampReturned /\ Len(data_records) >= 2 /\ dm_hist.low

\* the stable_count segment values ending with the k-th segment exceed
\* min_stiffness, are finite, and spread by less than max_fluctuation
StableAt(k) ==
    LET w == SubSeq(segment_logs, k - stable_count + 1, k)
    IN  /\ k >= stable_count
        /\ \A i \in 1..stable_count : w[i] > min_stiffness /\ w[i] # KInf
        /\ SeqMax(w) - SeqMin(w) < max_fluctuation

\* C30: the rolling-stability detector returns at the first segment whose
\* window is full, above the floor and within the tolerance: while it
\* collects segments no window so far satisfied the conditions, and when it
\* has returned the latest window satisfies them and no earlier one did.
C30_ReturnsAtFirstStableWindow ==
    /\ st_pc = "segment" => \A k \in 1..Len(segment_logs) : ~StableAt(k)
    /\ st_pc = "append" =>
        /\ Len(segment_logs) >= stable_count
        /\ StableAt(Len(segment_logs))
        /\ \A k \in 1..(Len(segment_logs) - 1) : ~StableAt(k)

\* C30 happens: the detector returned after two full windows that failed
C30_Witness ==
    st_pc = "append" /\ Len(segment_logs) = stable_count + 2

\* C28: the elapsed-validity detector of the transparency script and the
\* distance-windowed detector of the damping script leave their sampling loop
\* on every input stream
C28_WaitingDetectorsTerminate ==
    /\ (detector = "transparency") ~> (tr_pc # "sampling")
    /\ (detector = "damping") ~> (dm_pc # "sampling")

\* C31: the stability window of the rolling-stability detector never holds
\* more than stable_count values; while no more than stable_count segments
\* were produced it holds all of them, and afterwards it holds exactly the
\* stable_count most recent segment values in the order they were produced.
C31_WindowIsLastN ==
    /\ Len(stable_window) <= stable_count
    /\ Len(segment_logs) <= stable_count => stable_window = segment_logs
    /\ Len(segment_logs) > stable_count =>
           stable_window = SubSeq(segment_logs, Len(segment_logs) - stable_count + 1,
                                  Len(segment_logs))

\* C31 happens: the detector is still collecting after its oldest value,
\* which differs from the newest, was evicted
C31_Witness ==
    /\ st_pc = "segment"
    /\ Len(segment_logs) > stable_count
    /\ segment_logs[1] # segment_logs[Len(segment_logs)]

\* the steps of one direction of drag_measure, in the order of its loop body
DirectionSteps == <<"MoveJ", "Stop", "start_teleop", "sampling", "stop_teleop", "csv">>

\* C32: in drag_measure the steps of a direction run in the order MoveJ sync,
\* robot Stop, start_teleop, sampling, stop_teleop, CSV block; the sampling
\* step is only taken while teleop_pid holds a process handle; and a
\* start_teleop has spawned at most one process more than CSV blocks were
\* written, so the block of a direction precedes the start of the next one.
C32_DirectionStepsInOrder ==
    script = "drag_measure" =>
        /\ Len(hist.steps) <= Len(DirectionSteps)
        /\ hist.steps = SubSeq(DirectionSteps, 1, Len(hist.steps))
        /\ At("main", "m_measure") => teleop_pid # NoPid
        /\ spawned <= hist.blocks + 1
        /\ At("main", "m_start") => spawned = hist.blocks

\* C32 happens: the second direction is about to sample, after the first one
\* wrote its block
C32_Witness ==
    /\ script = "drag_measure"
    /\ At("main", "m_measure")
    /\ hist.blocks = 1
    /\ spawned = 2

\* C33: when a SIGINT arrived during start_teleop after the external process
\* had been spawned (before teleop_pid was stored, or during the sleep that
\* follows), the script does not exit before a stop_teleop call has sent a
\* signal to that process, by the group or by the pattern sweep.
C33_InterruptInStartReachesProcess ==
    (exited # "no" /\ hist.startInt # "none") => hist.startInt = "signalled"

\* C34: the rolling-stability detector never returns on a window that holds
\* the infinite-stiffness sentinel, so the stiffness it returns and every
\* value appended to trial_values is finite; a full window of which one,
\* several or all members are infinite leaves the detector collecting.
C34_NoStabilityOnInfinite ==
    /\ st_pc = "append" =>
        /\ \A k \in 1..Len(stable_window) : stable_window[k] < KInf
        /\ st_K # None /\ st_K[1] < KInf * st_K[2]
    /\ \A i \in 1..Len(trial_values) : trial_values[i][1] < KInf * trial_values[i][2]
    /\ (/\ st_pc \in {"segment", "append"}
        /\ Len(stable_window) = stable_count
        /\ \E k \in 1..stable_count : stable_window[k] = KInf) => st_pc = "segment"

\* C34 happens: a full window of infinite values was tested and rejected
C34_Witness ==
    /\ st_pc = "segment"
    /\ Len(stable_window) = stable_count
    /\ \A k \in 1..stable_count : stable_window[k] = KInf

\* C34 happens too: the detector returned after an infinite value had left
\* the window
C34_ReturnedAfterInfinite ==
    st_pc = "append" /\ \E k \in 1..Len(segment_logs) : segment_logs[k] = KInf

\* C35: when the dwell detector of the max-contact-wrench script or the
\* elapsed-validity detector of the transparency script has left its loop,
\* its buffer holds at least one sample; so the mean of the dwell detector
\* is taken over samples, measure_transparency_once does not return None, and
\* the transparency trial that ended has contributed its result.
C35_BufferNonEmptyAtClose ==
    /\ mcw_closed => Len(slave_values) >= 1
    /\ mcw_returned => avg_slave[2] = Len(slave_values)
    /\ tr_pc \in {"reduce", "record", "csv", "done"} => Len(valid_data) >= 1
    /\ tr_pc \in {"record", "csv", "done"} => T_avg # None
    /\ tr_pc \in {"csv", "done"} => test_results = <<T_avg>>

\* C35 happens: a transparency trial ended after an out-of-band sample had
\* emptied the buffer, and its result was recorded
C35_Witness ==
    tr_pc = "done" /\ tr_hist.broke /\ Len(test_results) = 1

\* C35 happens too: the dwell detector returned after a sample below the
\* setpoint had emptied its buffer
C35_DwellReturnedAfterReset ==
    mcw_returned /\ mcw_hist.broke

\* C36: measure_hover and the sampling of measure_drag_for_axis start only
\* when the latest read of the pedal gave 1; the next trial of
\* float_offset_measure starts only when the latest read of the release wait
\* gave 0; and after a failing read either wait is still waiting.
C36_PedalGates ==
    /\ hv_pc = "measure" => hv_pedal = <<"press", "1">>
    /\ (hv_pc = "loop" /\ hv_i > 0) => hv_pedal = <<"release", "0">>
    /\ hv_pedal = <<"press", "error">> => hv_pc = "press"
    /\ hv_pedal = <<"release", "error">> => hv_pc = "release"
    /\ md_pc = "sampling" => md_hist.read = "1"
    /\ md_hist.read = "error" => md_pc = "pedal"

\* C36 happens: after the second trial of float_offset_measure the read of
\* the pedal failed, and the script still waits for the release
C36_Witness ==
    hv_pc = "release" /\ hv_pedal = <<"release", "error">> /\ hv_i = 1

\* C36 happens too: a trial of min_drag_ft_measure is sampling
C36_DragSampling ==
    md_pc = "sampling" /\ Len(trials) = 1

\* the wait for the release at the test pose (automatic mode), which is no
\* gate of C36, is left on a failing read
AutoReleaseLeftOnFailingRead ==
    hv_pedal = <<"auto_release", "error">> /\ hv_pc = "press"

\* C37: in the automatic mode of float_offset_measure every trial index the
\* loop reaches refers to an entry of the test_pose table, so no trial ends
\* with an IndexError of the pose lookup.
C37_TrialPoseExists ==
    /\ (is_auto /\ hv_pc \in {"auto_press", "auto_move"}) => hv_i < PoseCount
    /\ fault # "IndexError"

\* C38: in save_go_pose, when a 'g' or 'h' command has completed every robot
\* is in the mode it had immediately before the command, whether its wait
\* ended by reaching the target or by the timeout; and a 'g' command that was
\* refused for an invalid index or for want of a valid saved pose has sent no
\* MoveJ command and left every robot's mode as it was.
C38_ModesRestored ==
    (menu_script = "save_go_pose" /\ menu_pc = "key") =>
        /\ menu_hist.last = "moved" =>
            /\ robot_modes = menu_hist.modes
            /\ menu_hist.sent = NRobots
        /\ menu_hist.last = "refused" =>
            /\ robot_modes = menu_hist.modes
            /\ menu_hist.sent = 0

\* C38 happens: a command completed with one robot at the target and another
\* timed out, and the robots are back in different modes
C38_Witness ==
    /\ menu_pc = "key"
    /\ menu_hist.last = "moved"
    /\ menu_hist.waits[1] = "reached"
    /\ menu_hist.waits[NRobots] = "timeout"
    /\ robot_modes[1] = "IDLE"
    /\ robot_modes[NRobots] = "RT_JOINT_POSITION"

\* C38 happens too: a 'g' command was refused after an earlier command moved
C38_RefusedAfterMove ==
    menu_pc = "key" /\ menu_hist.last = "refused" /\ menu_hist.earlier

====
